---------------------------- MODULE Spec2Model ----------------------------
(***************************************************************************)
(* TCR-Calculator: the thermal-resistance simulation engine               *)
(* (controllers/simulation_controller.py, SimulationManager) and the two  *)
(* runners of the simulation tab (tabs/simulation_tab.py).                *)
(*                                                                         *)
(* Numbers.  Python floats are modelled as decimal floating-point values  *)
(* <<m, e>> = m * 10^e with Prec significant digits, every operation      *)
(* rounding toward zero.  A result below the smallest positive double      *)
(* (about 1e-323) is 0.0, a result above the largest (about 1e308) is      *)
(* infinite.  INF is float('inf'), NAN is float('nan'); the negative      *)
(* infinity is not kept apart from NAN.                                    *)
(***************************************************************************)
EXTENDS Integers, Sequences, FiniteSets, TLC

\* Significant decimal digits kept by the model's floats.
Prec == 3

RECURSIVE Pow10(_)
Pow10(n) == IF n <= 0 THEN 1 ELSE 10 * Pow10(n - 1)

IAbs(i) == IF i < 0 THEN 0 - i ELSE i
ISgn(i) == IF i < 0 THEN 0 - 1 ELSE IF i > 0 THEN 1 ELSE 0

ZERO == <<0, 0>>
INF  == <<0, 1>>
NAN  == <<0, 2>>

IsInf(x) == x = INF
IsNan(x) == x = NAN
IsFinite(x) == x # INF /\ x # NAN

\* magnitude mg > 0 brought to exactly Prec digits, rounding toward zero
RECURSIVE NormMag(_, _)
NormMag(mg, e) ==
    IF mg >= Pow10(Prec) THEN NormMag(mg \div 10, e + 1)
    ELSE IF mg < Pow10(Prec - 1) THEN NormMag(mg * 10, e - 1)
    ELSE <<mg, e>>

\* the normalised magnitude r with its sign; below 1e-323, the decimal exponent of
\* the smallest positive double, the result is 0.0, above 1e308 it is infinite
Signed(sgn, r) ==
    IF r[2] + Prec - 1 < 0 - 323 THEN ZERO
    ELSE IF r[2] + Prec - 1 > 308 THEN (IF sgn > 0 THEN INF ELSE NAN)
    ELSE <<sgn * r[1], r[2]>>
Norm(m, e) == IF m = 0 THEN ZERO ELSE Signed(ISgn(m), NormMag(IAbs(m), e))

\* the float written m * 10^e in the source text
F(m, e) == Norm(m, e)
ONE == F(1, 0)

FSgn(x) == IF x = INF THEN 1 ELSE ISgn(x[1])
FNeg(x) == IF IsFinite(x) THEN <<0 - x[1], x[2]>> ELSE NAN
FAbs(x) == IF IsFinite(x) THEN <<IAbs(x[1]), x[2]>> ELSE x

\* x + y; a summand more than Prec + 1 digits below the other is absorbed
FAdd(x, y) ==
    IF IsNan(x) \/ IsNan(y) THEN NAN
    ELSE IF IsInf(x) \/ IsInf(y) THEN INF
    ELSE IF x = ZERO THEN y
    ELSE IF y = ZERO THEN x
    ELSE LET d == x[2] - y[2] IN
         IF d > Prec + 1 THEN x
         ELSE IF 0 - d > Prec + 1 THEN y
         ELSE IF d >= 0 THEN Norm(x[1] * Pow10(d) + y[1], y[2])
         ELSE Norm(x[1] + y[1] * Pow10(0 - d), x[2])

FSub(x, y) == FAdd(x, FNeg(y))

FMul(x, y) ==
    IF IsNan(x) \/ IsNan(y) THEN NAN
    ELSE IF IsInf(x) \/ IsInf(y)
         THEN (IF FSgn(x) > 0 /\ FSgn(y) > 0 THEN INF ELSE NAN)
    ELSE Norm(x[1] * y[1], x[2] + y[2])

\* x / y for y # 0 (the caller raises ZeroDivisionError when y = 0)
FDiv(x, y) ==
    IF IsNan(x) \/ IsNan(y) THEN NAN
    ELSE IF IsInf(y) THEN (IF IsInf(x) THEN NAN ELSE ZERO)
    ELSE IF IsInf(x) THEN (IF FSgn(y) > 0 THEN INF ELSE NAN)
    ELSE Norm(ISgn(x[1]) * ISgn(y[1]) * ((IAbs(x[1]) * Pow10(Prec + 1)) \div IAbs(y[1])),
              x[2] - y[2] - (Prec + 1))

\* x < y, x <= y, x > y as Python compares floats (every comparison with nan is False)
FLt(x, y) ==
    IF IsNan(x) \/ IsNan(y) THEN FALSE
    ELSE IF IsInf(x) THEN FALSE
    ELSE IF IsInf(y) THEN TRUE
    ELSE FSub(x, y)[1] < 0
FGt(x, y) == FLt(y, x)
FLe(x, y) == IF IsNan(x) \/ IsNan(y) THEN FALSE ELSE x = y \/ FLt(x, y)
FGe(x, y) == FLe(y, x)
FMin(x, y) == IF FLt(y, x) THEN y ELSE x

\* integer square root by bisection: the r with r*r <= n < (r+1)*(r+1)
RECURSIVE ISqrtB(_, _, _)
ISqrtB(n, lo, hi) ==
    IF lo >= hi THEN lo
    ELSE LET mid == (lo + hi + 1) \div 2 IN
         IF mid * mid <= n THEN ISqrtB(n, mid, hi) ELSE ISqrtB(n, lo, mid - 1)

\* math.sqrt(x) for finite x >= 0
FSqrt(x) ==
    IF x = ZERO THEN ZERO
    ELSE LET odd == (x[2] % 2) # 0
             m   == (IF odd THEN x[1] * 10 ELSE x[1]) * Pow10(Prec - 1)
             e   == (IF odd THEN x[2] - 1 ELSE x[2]) - (Prec - 1)
         IN Norm(ISqrtB(m, 0, Pow10(Prec)), e \div 2)

\* x ** a for x > 0, computed as 10 ** (a * log10(x)) in fixed point.  log10 of the
\* mantissa is extracted bit by bit (squaring doubles the logarithm), and the power
\* of ten of the fractional part is the product of the roots 10 ** (1/2), 10 ** (1/4),
\* ... of its bits, kept here with four decimals.
PowTable == <<31623, 17783, 13335, 11548, 10746, 10366, 10182, 10090, 10045, 10023>>
LogBits  == Len(PowTable)
LogScale == 4 * Pow10(3)
RECURSIVE Pow2(_)
Pow2(n) == IF n <= 0 THEN 1 ELSE 2 * Pow2(n - 1)

RECURSIVE Log10Bits(_, _, _)
Log10Bits(U, i, acc) ==
    IF i > LogBits THEN acc
    ELSE LET U2 == (U * U) \div LogScale IN
         IF U2 >= 10 * LogScale THEN Log10Bits(U2 \div 10, i + 1, 2 * acc + 1)
         ELSE Log10Bits(U2, i + 1, 2 * acc)

RECURSIVE Exp10Bits(_, _, _)
Exp10Bits(f, i, V) ==
    IF i > LogBits THEN V
    ELSE Exp10Bits(f, i + 1,
             IF (f \div Pow2(LogBits - i)) % 2 = 1
             THEN (V * PowTable[i]) \div Pow10(4) ELSE V)

FPow(x, a) ==
    IF IsInf(x) THEN (IF FSgn(a) > 0 THEN INF ELSE ZERO)
    ELSE IF x = ZERO THEN ZERO
    ELSE LET S  == Pow2(LogBits)
             U  == (x[1] * LogScale) \div Pow10(Prec - 1)
             L  == (x[2] + Prec - 1) * S + Log10Bits(U, 1, 0)
             yn == a[1] * L
             y  == IF a[2] >= 0 THEN yn * Pow10(a[2]) ELSE yn \div Pow10(0 - a[2])
         IN Norm(Exp10Bits(y % S, 1, Pow10(4)), (y \div S) - 4)


(***************************************************************************)
(* Values read from entries, files and dictionaries.  A raw value is a    *)
(* number (a float, or text that float() parses), the empty string '',    *)
(* text float() rejects ('abc'), or a number written with a decimal comma *)
(* ('0,001'), which float() rejects until the comma is replaced.          *)
(***************************************************************************)
Num(x)   == [t |-> "num", v |-> x]
EMPTY    == [t |-> "empty", v |-> ZERO]
TEXT     == [t |-> "text", v |-> ZERO]
Comma(x) == [t |-> "comma", v |-> x]

\* float(raw) raises ValueError unless the value is a number
FloatOk(raw) == raw.t = "num"
\* str.replace(',', '.')
ReplaceComma(raw) == IF raw.t = "comma" THEN Num(raw.v) ELSE raw

\* dict.get(key, 0) on a record whose DOMAIN is the set of keys present
Get(d, key) == IF key \in DOMAIN d THEN d[key] ELSE Num(ZERO)
\* self.materials.get(name, {})
NoFields == [f \in {} |-> EMPTY]
MatOf(mats, name) == IF name \in DOMAIN mats THEN mats[name] ELSE NoFields

\* models.py
Geometry(name, length, width, height) ==
    [name |-> name, length |-> length, width |-> width, height |-> height,
     area |-> FMul(length, width)]

Interface(geom_top, geom_bottom, has_tcr) ==
    [geom_top |-> geom_top, geom_bottom |-> geom_bottom, has_tcr |-> has_tcr,
     A_nominal |-> FMin(geom_top.area, geom_bottom.area)]

(***************************************************************************)
(* SimulationManager.get_interface_params.  The display name               *)
(* "top -> bottom" is kept as the pair <<top, bottom>>.                    *)
(***************************************************************************)
SIGMA_SCALE == F(1, 0 - 6)
YOUNG_SCALE == F(1, 9)
HC_SCALE    == F(1, 6)

\* get_val(d, k, scale) for a field that parses
get_val(d, k, scale) == FMul(Get(d, k).v, scale)

ParamFields == {"sigma", "m", "k", "young", "poisson", "hc"}

None == [ok |-> FALSE, name |-> <<"", "">>, sig_s |-> ZERO, m_s |-> ZERO, k_s |-> ZERO,
         e_s |-> ZERO, hc_soft |-> ZERO, A_nom |-> ZERO]

\* get_interface_params with k_1 * k_2 / (k_1 + k_2) for k_s
get_interface_params_HalfMean(mats, iface) ==
    LET name_top    == iface.geom_top.name
        name_bottom == iface.geom_bottom.name
        mat_top     == MatOf(mats, name_top)
        mat_bottom  == MatOf(mats, name_bottom)
        sig_1 == get_val(mat_top, "sigma", SIGMA_SCALE)
        sig_2 == get_val(mat_bottom, "sigma", SIGMA_SCALE)
        m_1   == get_val(mat_top, "m", ONE)
        m_2   == get_val(mat_bottom, "m", ONE)
        k_1   == get_val(mat_top, "k", ONE)
        k_2   == get_val(mat_bottom, "k", ONE)
        e_1   == get_val(mat_top, "young", YOUNG_SCALE)
        e_2   == get_val(mat_bottom, "young", YOUNG_SCALE)
        v_1   == get_val(mat_top, "poisson", ONE)
        v_2   == get_val(mat_bottom, "poisson", ONE)
        denom == FAdd(FMul(e_2, FSub(ONE, FMul(v_1, v_1))),
                      FMul(e_1, FSub(ONE, FMul(v_2, v_2))))
        hc_1  == get_val(mat_top, "hc", HC_SCALE)
        hc_2  == get_val(mat_bottom, "hc", HC_SCALE)
    IN IF \E f \in ParamFields : ~FloatOk(Get(mat_top, f)) \/ ~FloatOk(Get(mat_bottom, f))
       THEN None
       ELSE [ok      |-> TRUE,
             name    |-> <<name_top, name_bottom>>,
             sig_s   |-> FSqrt(FAdd(FMul(sig_1, sig_1), FMul(sig_2, sig_2))),
             m_s     |-> FSqrt(FAdd(FMul(m_1, m_1), FMul(m_2, m_2))),
             k_s     |-> IF FGt(FAdd(k_1, k_2), ZERO)
                         THEN FDiv(FMul(k_1, k_2), FAdd(k_1, k_2))
                         ELSE ZERO,
             e_s     |-> IF FGt(denom, ZERO) THEN FDiv(FMul(e_1, e_2), denom) ELSE ZERO,
             hc_soft |-> IF FGt(hc_1, ZERO) /\ FGt(hc_2, ZERO) THEN FMin(hc_1, hc_2)
                         ELSE IF FGt(hc_1, ZERO) THEN hc_1
                         ELSE IF FGt(hc_2, ZERO) THEN hc_2
                         ELSE ZERO,
             A_nom   |-> iface.A_nominal]

\* get_interface_params with min(hc_1, hc_2) for hc_soft
get_interface_params_MinOfBoth(mats, iface) ==
    LET name_top    == iface.geom_top.name
        name_bottom == iface.geom_bottom.name
        mat_top     == MatOf(mats, name_top)
        mat_bottom  == MatOf(mats, name_bottom)
        sig_1 == get_val(mat_top, "sigma", SIGMA_SCALE)
        sig_2 == get_val(mat_bottom, "sigma", SIGMA_SCALE)
        m_1   == get_val(mat_top, "m", ONE)
        m_2   == get_val(mat_bottom, "m", ONE)
        k_1   == get_val(mat_top, "k", ONE)
        k_2   == get_val(mat_bottom, "k", ONE)
        e_1   == get_val(mat_top, "young", YOUNG_SCALE)
        e_2   == get_val(mat_bottom, "young", YOUNG_SCALE)
        v_1   == get_val(mat_top, "poisson", ONE)
        v_2   == get_val(mat_bottom, "poisson", ONE)
        denom == FAdd(FMul(e_2, FSub(ONE, FMul(v_1, v_1))),
                      FMul(e_1, FSub(ONE, FMul(v_2, v_2))))
        hc_1  == get_val(mat_top, "hc", HC_SCALE)
        hc_2  == get_val(mat_bottom, "hc", HC_SCALE)
    IN IF \E f \in ParamFields : ~FloatOk(Get(mat_top, f)) \/ ~FloatOk(Get(mat_bottom, f))
       THEN None
       ELSE [ok      |-> TRUE,
             name    |-> <<name_top, name_bottom>>,
             sig_s   |-> FSqrt(FAdd(FMul(sig_1, sig_1), FMul(sig_2, sig_2))),
             m_s     |-> FSqrt(FAdd(FMul(m_1, m_1), FMul(m_2, m_2))),
             k_s     |-> IF FGt(FAdd(k_1, k_2), ZERO)
                         THEN FDiv(FMul(FMul(F(2, 0), k_1), k_2), FAdd(k_1, k_2))
                         ELSE ZERO,
             e_s     |-> IF FGt(denom, ZERO) THEN FDiv(FMul(e_1, e_2), denom) ELSE ZERO,
             hc_soft |-> FMin(hc_1, hc_2),
             A_nom   |-> iface.A_nominal]

get_interface_params(mats, iface) ==
    LET name_top    == iface.geom_top.name
        name_bottom == iface.geom_bottom.name
        mat_top     == MatOf(mats, name_top)
        mat_bottom  == MatOf(mats, name_bottom)
        sig_1 == get_val(mat_top, "sigma", SIGMA_SCALE)
        sig_2 == get_val(mat_bottom, "sigma", SIGMA_SCALE)
        m_1   == get_val(mat_top, "m", ONE)
        m_2   == get_val(mat_bottom, "m", ONE)
        k_1   == get_val(mat_top, "k", ONE)
        k_2   == get_val(mat_bottom, "k", ONE)
        e_1   == get_val(mat_top, "young", YOUNG_SCALE)
        e_2   == get_val(mat_bottom, "young", YOUNG_SCALE)
        v_1   == get_val(mat_top, "poisson", ONE)
        v_2   == get_val(mat_bottom, "poisson", ONE)
        denom == FAdd(FMul(e_2, FSub(ONE, FMul(v_1, v_1))),
                      FMul(e_1, FSub(ONE, FMul(v_2, v_2))))
        hc_1  == get_val(mat_top, "hc", HC_SCALE)
        hc_2  == get_val(mat_bottom, "hc", HC_SCALE)
    IN IF \E f \in ParamFields : ~FloatOk(Get(mat_top, f)) \/ ~FloatOk(Get(mat_bottom, f))
       THEN None
       ELSE [ok      |-> TRUE,
             name    |-> <<name_top, name_bottom>>,
             sig_s   |-> FSqrt(FAdd(FMul(sig_1, sig_1), FMul(sig_2, sig_2))),
             m_s     |-> FSqrt(FAdd(FMul(m_1, m_1), FMul(m_2, m_2))),
             k_s     |-> IF FGt(FAdd(k_1, k_2), ZERO)
                         THEN FDiv(FMul(FMul(F(2, 0), k_1), k_2), FAdd(k_1, k_2))
                         ELSE ZERO,
             e_s     |-> IF FGt(denom, ZERO) THEN FDiv(FMul(e_1, e_2), denom) ELSE ZERO,
             hc_soft |-> IF FGt(hc_1, ZERO) /\ FGt(hc_2, ZERO) THEN FMin(hc_1, hc_2)
                         ELSE IF FGt(hc_1, ZERO) THEN hc_1
                         ELSE IF FGt(hc_2, ZERO) THEN hc_2
                         ELSE ZERO,
             A_nom   |-> iface.A_nominal]

(***************************************************************************)
(* The model kernels: contact conductance h_c(params, P).                  *)
(***************************************************************************)
SQRT2 == FSqrt(F(2, 0))

calc_mikic_elastic(params, P) ==
    IF FGt(params.sig_s, ZERO) /\ FGt(params.m_s, ZERO) /\ FGt(params.e_s, ZERO)
    THEN LET inner == FDiv(FMul(SQRT2, P), FMul(params.m_s, params.e_s)) IN
         IF FGt(inner, ZERO)
         THEN FMul(FMul(FMul(F(154, 0 - 2), params.k_s), FDiv(params.m_s, params.sig_s)),
                   FPow(inner, F(94, 0 - 2)))
         ELSE ZERO
    ELSE ZERO

\* the three kernels normalised by the microhardness differ in coefficient and exponent
HardnessKernel(params, P, coeff, expo) ==
    IF FGt(params.sig_s, ZERO) /\ FGt(params.m_s, ZERO) /\ FGt(params.hc_soft, ZERO)
    THEN LET rel_p == FDiv(P, params.hc_soft) IN
         IF FGt(rel_p, ZERO)
         THEN FMul(FMul(FMul(coeff, params.k_s), FDiv(params.m_s, params.sig_s)),
                   FPow(rel_p, expo))
         ELSE ZERO
    ELSE ZERO

calc_mikic_plastic(params, P) == HardnessKernel(params, P, F(113, 0 - 2), F(94, 0 - 2))
calc_cmy(params, P)           == HardnessKernel(params, P, F(145, 0 - 2), F(985, 0 - 3))
calc_yovanovich(params, P)    == HardnessKernel(params, P, F(125, 0 - 2), F(95, 0 - 2))

Kernels == {"mikic_elastic", "mikic_plastic", "cmy", "yovanovich"}

\* the exception a kernel raises, "" for none: calc_mikic_elastic divides by
\* m_s * e_s, which is 0.0 when the product of two positive numbers underflows; the
\* kernels normalised by the microhardness divide by numbers tested positive
calc_exc(model, params, P) ==
    IF /\ model = "mikic_elastic"
       /\ FGt(params.sig_s, ZERO) /\ FGt(params.m_s, ZERO) /\ FGt(params.e_s, ZERO)
       /\ FMul(params.m_s, params.e_s) = ZERO
    THEN "ZeroDivisionError" ELSE ""

\* calc_func(params, Pressure) for the kernel the caller passes
calc_func(model, params, P) ==
    CASE model = "mikic_elastic" -> calc_mikic_elastic(params, P)
      [] model = "mikic_plastic" -> calc_mikic_plastic(params, P)
      [] model = "cmy"           -> calc_cmy(params, P)
      [] model = "yovanovich"    -> calc_yovanovich(params, P)

(***************************************************************************)
(* SimulationManager.run_model.  A TIM is a record [id, name, k, type,     *)
(* pressure_dependent] with k a raw value; an interface configuration is   *)
(* [idx, interface, tim_var, thickness_entry], the dictionary              *)
(* interface_configs being the sequence of its items in insertion order.   *)
(***************************************************************************)
FORCE_TOL == F(1, 0 - 9)

\* next((t for t in self.tims if t.get('name') == tim_name), None): the position of
\* the first TIM of that name, 0 for None
RECURSIVE FirstTim(_, _, _)
FirstTim(tim_list, tim_name, i) ==
    IF i > Len(tim_list) THEN 0
    ELSE IF tim_list[i].name = tim_name THEN i
    ELSE FirstTim(tim_list, tim_name, i + 1)

\* lines 165-184: the gap conductance h_int of one (interface, force) pair;
\* exc names the exception that leaves run_model, "" for none.  0.0 ** -0.097
\* raises inside the try of line 172 and leaves h_int = 0.0, as delta = 0 does.
h_int_of(params, tim_list, ti, user_blt_str, Pressure) ==
    IF ti = 0 THEN [exc |-> "", v |-> ZERO]
    ELSE IF ~FloatOk(tim_list[ti].k) THEN [exc |-> "ValueError", v |-> ZERO]
    ELSE LET k_tim        == tim_list[ti].k.v
             is_gas       == tim_list[ti].type = "gas"
             is_press_dep == tim_list[ti].pressure_dependent
             delta        == FMul(FMul(F(153, 0 - 2), params.sig_s),
                                  FPow(FDiv(Pressure, params.hc_soft), F(0 - 97, 0 - 3)))
         IN IF is_gas /\ is_press_dep
            THEN IF FGt(params.hc_soft, ZERO) /\ FGt(params.sig_s, ZERO) /\ FGt(Pressure, ZERO)
                 THEN [exc |-> "", v |-> IF FGt(delta, ZERO) THEN FDiv(k_tim, delta) ELSE ZERO]
                 ELSE [exc |-> "", v |-> ZERO]
            ELSE IF FloatOk(user_blt_str) /\ FGt(user_blt_str.v, ZERO)
                 THEN [exc |-> "", v |-> FDiv(k_tim, user_blt_str.v)]
                 ELSE [exc |-> "", v |-> ZERO]

\* lines 190-192: percent metal-to-metal contact
pct_styku_of(params, Pressure) ==
    IF FGt(params.hc_soft, ZERO)
    THEN FMin(F(100, 0), FMul(FDiv(Pressure, params.hc_soft), F(100, 0)))
    ELSE ZERO

\* Combine with the resistance guarded by the contact conductance alone
Combine_ContactGuard(h_c, h_int, A_nom) ==
    LET h_eff == FAdd(h_c, h_int)
        R_eff == FDiv(ONE, FMul(h_eff, A_nom))
        on    == FGt(h_c, ZERO)
    IN [exc   |-> "",
        h_eff |-> h_eff,
        R_c   |-> IF on THEN FDiv(ONE, FMul(h_c, A_nom)) ELSE INF,
        R_int |-> IF FGt(h_int, ZERO) THEN FDiv(ONE, FMul(h_int, A_nom)) ELSE INF,
        TCR   |-> IF on THEN R_eff ELSE INF,
        K     |-> IF on THEN FDiv(F(1, 0 - 4), FMul(R_eff, A_nom)) ELSE ZERO]

\* Combine with the two path resistances added, as for paths in series
Combine_SeriesPaths(h_c, h_int, A_nom) ==
    LET h_eff == FAdd(h_c, h_int)
        d_c   == FMul(h_c, A_nom)
        d_int == FMul(h_int, A_nom)
        R_c   == IF FGt(h_c, ZERO) THEN FDiv(ONE, d_c) ELSE INF
        R_int == IF FGt(h_int, ZERO) THEN FDiv(ONE, d_int) ELSE INF
        zde   == \/ FGt(h_c, ZERO) /\ d_c = ZERO
                 \/ FGt(h_int, ZERO) /\ d_int = ZERO
    IN IF zde
       THEN [exc |-> "ZeroDivisionError", h_eff |-> h_eff, R_c |-> INF, R_int |-> INF,
             TCR |-> INF, K |-> ZERO]
       ELSE [exc   |-> "",
             h_eff |-> h_eff,
             R_c   |-> R_c,
             R_int |-> R_int,
             TCR   |-> FAdd(R_c, R_int),
             K     |-> ZERO]

\* lines 186-188, 195-202: the resistances of one row from h_c, h_int and A_nom > 0;
\* exc is "ZeroDivisionError" when a divisor is 0.0
Combine(h_c, h_int, A_nom) ==
    LET h_eff == FAdd(h_c, h_int)
        d_c   == FMul(h_c, A_nom)
        d_int == FMul(h_int, A_nom)
        d_eff == FMul(h_eff, A_nom)
        R_eff == FDiv(ONE, d_eff)
        zde   == \/ FGt(h_c, ZERO) /\ d_c = ZERO
                 \/ FGt(h_int, ZERO) /\ d_int = ZERO
                 \/ FGt(h_eff, ZERO) /\ (d_eff = ZERO \/ FMul(R_eff, A_nom) = ZERO)
    IN IF zde
       THEN [exc |-> "ZeroDivisionError", h_eff |-> h_eff, R_c |-> INF, R_int |-> INF,
             TCR |-> INF, K |-> ZERO]
       ELSE [exc   |-> "",
             h_eff |-> h_eff,
             R_c   |-> IF FGt(h_c, ZERO) THEN FDiv(ONE, d_c) ELSE INF,
             R_int |-> IF FGt(h_int, ZERO) THEN FDiv(ONE, d_int) ELSE INF,
             TCR   |-> IF FGt(h_eff, ZERO) THEN R_eff ELSE INF,
             K     |-> IF FGt(h_eff, ZERO)
                       THEN FDiv(F(1, 0 - 4), FMul(R_eff, A_nom)) ELSE ZERO]

\* lines 204-217: the dictionary appended to tcr_results, from the values computed
\* for the pair; exc is the exception raised on the way, "" for none
RowDict(name, force_val, Pressure, pct_styku, h_c, hi, c) ==
    [exc |-> IF hi.exc # "" THEN hi.exc ELSE c.exc,
     row |-> [force_N     |-> force_val,
              interface   |-> name,
              pressure_Pa |-> Pressure,
              pct_styku   |-> pct_styku,
              pct_int     |-> FSub(F(100, 0), pct_styku),
              h_c         |-> h_c,
              R_c         |-> c.R_c,
              h_int       |-> hi.v,
              R_int       |-> c.R_int,
              h_eff       |-> c.h_eff,
              TCR         |-> c.TCR,
              K           |-> c.K]]

\* lines 186-217: h_c and h_int combined and the row built
RowFrom(params, force_val, Pressure, h_c, hi) ==
    RowDict(params.name, force_val, Pressure, pct_styku_of(params, Pressure), h_c, hi,
            Combine(h_c, hi.v, params.A_nom))

\* lines 158-217: the detail row of one (interface, force) pair with A_nom > 0
DetailRow(model, params, tim_list, ti, user_blt_str, force_val) ==
    LET Pressure == FDiv(force_val, params.A_nom) IN
    IF calc_exc(model, params, Pressure) # ""
    THEN [exc |-> calc_exc(model, params, Pressure), row |-> <<>>]
    ELSE RowFrom(params, force_val, Pressure, calc_func(model, params, Pressure),
                 h_int_of(params, tim_list, ti, user_blt_str, Pressure))

\* iface_tcr_accumulation.setdefault(name, []).append(entry), the dictionary kept as
\* the sequence of its (name, entries) items in insertion order
RECURSIVE AccAppend(_, _, _, _)
AccAppend(acc, name, entry, i) ==
    IF i > Len(acc) THEN Append(acc, [name |-> name, entries |-> <<entry>>])
    ELSE IF acc[i].name = name
         THEN [acc EXCEPT ![i].entries = Append(@, entry)]
         ELSE AccAppend(acc, name, entry, i + 1)

\* StoreRow that leaves out the row of an interface without heat path
StoreRow_DropsOpenRow(st, r) ==
    IF r.exc # ""
    THEN [st EXCEPT !.exc = r.exc, !.n_calc = @ + 1]
    ELSE IF r.row.TCR = INF THEN [st EXCEPT !.n_calc = @ + 1]
    ELSE [st EXCEPT !.rows = Append(@, r.row),
                    !.acc = AccAppend(@, r.row.interface,
                              [force |-> r.row.force_N, R_val |-> r.row.TCR], 1),
                    !.n_calc = @ + 1]

\* lines 204-219: the row r appended to tcr_results and its TCR to the accumulation,
\* or the exception that ended the computation of r
StoreRow(st, r) ==
    IF r.exc # ""
    THEN [st EXCEPT !.exc = r.exc, !.n_calc = @ + 1]
    ELSE [st EXCEPT !.rows = Append(@, r.row),
                    !.acc = AccAppend(@, r.row.interface,
                              [force |-> r.row.force_N, R_val |-> r.row.TCR], 1),
                    !.n_calc = @ + 1]

\* ForceLoop skipping a nominal area of zero only
RECURSIVE ForceLoop_ZeroAreaOnly(_, _, _, _, _, _, _, _)
ForceLoop_ZeroAreaOnly(st, model, params, tim_list, ti, user_blt_str, force_list, j) ==
    IF j > Len(force_list) \/ st.exc # "" THEN st
    ELSE IF params.A_nom = ZERO
         THEN ForceLoop_ZeroAreaOnly(st, model, params, tim_list, ti, user_blt_str,
                                     force_list, j + 1)
    ELSE ForceLoop_ZeroAreaOnly(
             StoreRow(st, DetailRow(model, params, tim_list, ti, user_blt_str,
                                    force_list[j])),
             model, params, tim_list, ti, user_blt_str, force_list, j + 1)

\* lines 157-219: the loop over self.forces for one interface; st carries the
\* exception raised so far, the rows, the accumulation and the number of kernel calls
RECURSIVE ForceLoop(_, _, _, _, _, _, _, _)
ForceLoop(st, model, params, tim_list, ti, user_blt_str, force_list, j) ==
    IF j > Len(force_list) \/ st.exc # "" THEN st
    ELSE IF FLe(params.A_nom, ZERO)
         THEN ForceLoop(st, model, params, tim_list, ti, user_blt_str, force_list, j + 1)
    ELSE ForceLoop(StoreRow(st, DetailRow(model, params, tim_list, ti, user_blt_str,
                                          force_list[j])),
                   model, params, tim_list, ti, user_blt_str, force_list, j + 1)

\* lines 145-219: one interface, skipped when its parameters did not resolve
ForInterface(st, model, tim_list, force_list, cfg, params) ==
    IF ~params.ok THEN st
    ELSE ForceLoop(st, model, params, tim_list, FirstTim(tim_list, cfg.tim_var, 1),
                   ReplaceComma(cfg.thickness_entry), force_list, 1)

\* lines 144-219: the loop over interface_configs.items()
RECURSIVE IfaceLoop(_, _, _, _, _, _, _)
IfaceLoop(st, model, mats, tim_list, force_list, interface_configs, i) ==
    IF i > Len(interface_configs) \/ st.exc # "" THEN st
    ELSE IfaceLoop(ForInterface([st EXCEPT !.n_params = @ + 1], model, tim_list, force_list,
                                interface_configs[i],
                                get_interface_params(mats, interface_configs[i].interface)),
                   model, mats, tim_list, force_list, interface_configs, i + 1)

\* lines 225-235: the bulk resistance of the geometries g[i..]
RECURSIVE R_bulk_from(_, _, _, _)
R_bulk_from(geoms, mats, i, total) ==
    IF i > Len(geoms) THEN total
    ELSE LET g    == geoms[i]
             kraw == Get(MatOf(mats, g.name), "k")
             area == FMul(g.length, g.width)
             den  == FMul(kraw.v, area)
         IN R_bulk_from(geoms, mats, i + 1,
                IF FloatOk(kraw) /\ FGt(kraw.v, ZERO) /\ den # ZERO
                THEN FAdd(total, FDiv(g.height, den))
                ELSE total)

\* next((e for e in entries if abs(e['force'] - f) < 1e-9), None): position, 0 for None
RECURSIVE FirstEntry(_, _, _)
FirstEntry(entries, f, i) ==
    IF i > Len(entries) THEN 0
    ELSE IF FLt(FAbs(FSub(entries[i].force, f)), FORCE_TOL) THEN i
    ELSE FirstEntry(entries, f, i + 1)

\* lines 240-250: the loop over tcr_data.items() for the force f
RECURSIVE SumLoop(_, _, _, _)
SumLoop(tcr_data, f, i, s) ==
    IF i > Len(tcr_data) THEN s
    ELSE LET k == FirstEntry(tcr_data[i].entries, f, 1)
             R == tcr_data[i].entries[k].R_val
         IN SumLoop(tcr_data, f, i + 1,
                IF k = 0 THEN s
                ELSE IF R = INF THEN [s EXCEPT !.valid = FALSE, !.found = @ + 1]
                ELSE [s EXCEPT !.sum = FAdd(@, R), !.found = @ + 1])

\* lines 239-264: the summary row of the force f
q_row(tcr_data, f, R_bulk_total, dT) ==
    LET s       == SumLoop(tcr_data, f, 1, [sum |-> ZERO, valid |-> TRUE, found |-> 0])
        open    == ~s.valid \/ s.found = 0
        R_total == IF open THEN INF ELSE FAdd(R_bulk_total, s.sum)
    IN [force_N |-> f,
        R_U     |-> R_bulk_total,
        TCRsum  |-> s.sum,
        R_total |-> R_total,
        Q       |-> IF ~open /\ FGt(R_total, ZERO) THEN FDiv(dT, R_total) ELSE ZERO]

calculate_system_q(geoms, mats, force_list, tcr_data, thot, tcold) ==
    LET R_bulk_total == R_bulk_from(geoms, mats, 1, ZERO)
        dT           == FAbs(FSub(thot, tcold))
    IN [j \in 1..Len(force_list) |-> q_row(tcr_data, force_list[j], R_bulk_total, dT)]

\* What a call leaves behind: the returned tuple (ok, msg, tcr, q), or the exception
\* that left it, with the number of resolver and kernel calls it made
Returned(ok, msg, rows, q, st) ==
    [exc |-> "", ok |-> ok, msg |-> msg, tcr |-> rows, q |-> q,
     n_params |-> st.n_params, n_calc |-> st.n_calc]
Raised(st) ==
    [exc |-> st.exc, ok |-> FALSE, msg |-> "", tcr |-> <<>>, q |-> <<>>,
     n_params |-> st.n_params, n_calc |-> st.n_calc]
St0 == [exc |-> "", rows |-> <<>>, acc |-> <<>>, n_params |-> 0, n_calc |-> 0]

\* lines 144-222: the loops have run and left st
Outcome(geoms, mats, force_list, thot, tcold, st) ==
    IF st.exc # "" THEN Raised(st)
    ELSE Returned(TRUE, "OK", st.rows,
                  calculate_system_q(geoms, mats, force_list, st.acc, thot, tcold), st)

\* run_model without the check of the force list
run_model_NoForceCheck(geoms, mats, tim_list, force_list, model, interface_configs, thot, tcold) ==
    IF interface_configs = <<>>
    THEN Returned(FALSE, "Brak skonfigurowanych interfejsow.", <<>>, <<>>, St0)
    ELSE Outcome(geoms, mats, force_list, thot, tcold,
                 IfaceLoop(St0, model, mats, tim_list, force_list, interface_configs, 1))

run_model(geoms, mats, tim_list, force_list, model, interface_configs, thot, tcold) ==
    IF interface_configs = <<>>
    THEN Returned(FALSE, "Brak skonfigurowanych interfejsow.", <<>>, <<>>, St0)
    ELSE IF force_list = <<>>
    THEN Returned(FALSE, "Brak zdefiniowanych sil w systemie.", <<>>, <<>>, St0)
    ELSE Outcome(geoms, mats, force_list, thot, tcold,
                 IfaceLoop(St0, model, mats, tim_list, force_list, interface_configs, 1))

(***************************************************************************)
(* SimulationTab._run_mikic_spr and SimulationTab._run_mikic_plast.  The   *)
(* runners read the system the application holds, the interface_config of  *)
(* the tab and its two temperature entries; kind is "spr" or               *)
(* "plast".  What a runner leaves is [exc, dialog, tcr_rows, q_rows]:      *)
(* the exception that left it, the title of the message box it showed, or  *)
(* the two tables of the report windows.                                   *)
(***************************************************************************)

\* the material fields each runner converts with float() outside any try block
TabFields(kind) ==
    IF kind = "spr" THEN {"sigma", "m", "k", "young", "poisson", "hc"}
    ELSE {"sigma", "m", "k", "hc"}

\* lines 378-402 and 447-449 (spr), 652-673 (plast): the effective parameters
TabParams(kind, mats, iface) ==
    LET mat_top    == MatOf(mats, iface.geom_top.name)
        mat_bottom == MatOf(mats, iface.geom_bottom.name)
        sig_1 == FMul(Get(mat_top, "sigma").v, SIGMA_SCALE)
        sig_2 == FMul(Get(mat_bottom, "sigma").v, SIGMA_SCALE)
        m_1   == Get(mat_top, "m").v
        m_2   == Get(mat_bottom, "m").v
        k_1   == Get(mat_top, "k").v
        k_2   == Get(mat_bottom, "k").v
        e_1   == FMul(Get(mat_top, "young").v, YOUNG_SCALE)
        e_2   == FMul(Get(mat_bottom, "young").v, YOUNG_SCALE)
        v_1   == Get(mat_top, "poisson").v
        v_2   == Get(mat_bottom, "poisson").v
        denom == FAdd(FMul(e_2, FSub(ONE, FMul(v_1, v_1))),
                      FMul(e_1, FSub(ONE, FMul(v_2, v_2))))
        hc_top    == FMul(Get(mat_top, "hc").v, HC_SCALE)
        hc_bottom == FMul(Get(mat_bottom, "hc").v, HC_SCALE)
    IN [exc     |-> IF \E f \in TabFields(kind) :
                          ~FloatOk(Get(mat_top, f)) \/ ~FloatOk(Get(mat_bottom, f))
                    THEN "ValueError" ELSE "",
        name    |-> <<iface.geom_top.name, iface.geom_bottom.name>>,
        sig_s   |-> IF sig_1 # ZERO \/ sig_2 # ZERO
                    THEN FSqrt(FAdd(FMul(sig_1, sig_1), FMul(sig_2, sig_2))) ELSE ZERO,
        m_s     |-> IF m_1 # ZERO \/ m_2 # ZERO
                    THEN FSqrt(FAdd(FMul(m_1, m_1), FMul(m_2, m_2))) ELSE ZERO,
        k_s     |-> IF FGt(FAdd(k_1, k_2), ZERO)
                    THEN FDiv(FMul(FMul(F(2, 0), k_1), k_2), FAdd(k_1, k_2))
                    ELSE ZERO,
        e_s     |-> IF FGt(denom, ZERO) THEN FDiv(FMul(e_1, e_2), denom) ELSE ZERO,
        hc_soft |-> IF FGt(hc_top, ZERO) /\ FGt(hc_bottom, ZERO) THEN FMin(hc_top, hc_bottom)
                    ELSE IF FGt(hc_top, ZERO) THEN hc_top
                    ELSE IF FGt(hc_bottom, ZERO) THEN hc_bottom
                    ELSE ZERO,
        A_nom   |-> iface.A_nominal]

\* lines 432-439 (spr), 699-706 (plast): the contact conductance of the runner
TabContact(kind, prm, p) ==
    LET lead  == FDiv(FMul(FMul(IF kind = "spr" THEN F(154, 0 - 2) ELSE F(113, 0 - 2),
                                prm.k_s), prm.m_s), prm.sig_s)
        inner == IF kind = "spr"
                 THEN FDiv(FMul(SQRT2, p), FMul(prm.m_s, prm.e_s))
                 ELSE FDiv(p, prm.hc_soft)
        third == IF kind = "spr" THEN prm.e_s ELSE prm.hc_soft
    IN IF FGt(prm.sig_s, ZERO) /\ FGt(prm.m_s, ZERO) /\ FGt(third, ZERO) /\ FGt(prm.k_s, ZERO)
       THEN (IF kind = "spr" /\ FMul(prm.m_s, prm.e_s) = ZERO THEN ZERO
             ELSE IF FGt(inner, ZERO) THEN FMul(lead, FPow(inner, F(94, 0 - 2)))
             ELSE ZERO)
       ELSE ZERO

\* self.interface_config[idx] for the interface at position pos of
\* system_interfaces, 0 when there is none
RECURSIVE ConfigAt(_, _, _)
ConfigAt(interface_config, pos, i) ==
    IF i > Len(interface_config) THEN 0
    ELSE IF interface_config[i].idx = pos - 1 THEN i
    ELSE ConfigAt(interface_config, pos, i + 1)

\* lines 463-477 (spr), 724-736 (plast): h_int and R_int from the selected TIM (ti,
\* 0 for none) and the thickness entry, which is read without replacing a comma
TabGap(tim_list, ti, thickness_entry, A_nom) ==
    LET none  == [h_int |-> ZERO, R_int |-> INF]
        k     == tim_list[ti].k
        h_int == FDiv(k.v, thickness_entry.v)
        den   == FMul(h_int, A_nom)
    IN IF ti = 0 \/ ~FloatOk(thickness_entry) \/ ~FGt(thickness_entry.v, ZERO) THEN none
       ELSE IF ~FloatOk(k) THEN none
       ELSE IF ~FGt(k.v, ZERO) THEN none
       ELSE IF FGt(h_int, ZERO) /\ FGt(A_nom, ZERO)
            THEN (IF den = ZERO THEN none ELSE [h_int |-> h_int, R_int |-> FDiv(ONE, den)])
            ELSE [h_int |-> h_int, R_int |-> INF]

\* lines 479-517 (spr), 738-770 (plast): R_c and R_int combined, in parallel by the
\* elastic runner and in series by the plastic one, and the row built; exc is
\* "ZeroDivisionError" when the parallel combination divides by 0.0
TabCombine(kind, prm, gap, f, p, pct_styku, h_c, R_c) ==
    LET open      == R_c = INF /\ gap.R_int = INF
        R_c_val   == IF R_c # INF THEN R_c ELSE ZERO
        R_int_val == IF gap.R_int # INF THEN gap.R_int ELSE ZERO
        den       == FAdd(R_c_val, R_int_val)
        zde       == ~open /\ kind = "spr" /\ den = ZERO
        R_eff     == IF open THEN INF
                     ELSE IF kind = "spr" THEN (IF zde THEN ZERO
                                                ELSE FDiv(FMul(R_c_val, R_int_val), den))
                     ELSE den
    IN [exc |-> IF zde THEN "ZeroDivisionError" ELSE "",
        row |-> [force_N     |-> f,
                 interface   |-> prm.name,
                 pressure_Pa |-> p,
                 A_used      |-> prm.A_nom,
                 pct_styku   |-> pct_styku,
                 pct_int     |-> FSub(F(100, 0), pct_styku),
                 h_c         |-> h_c,
                 R_c         |-> R_c,
                 h_int       |-> gap.h_int,
                 R_int       |-> gap.R_int,
                 h_eff       |-> IF open THEN ZERO
                                 ELSE IF kind = "spr" THEN FAdd(h_c, gap.h_int)
                                 ELSE IF FGt(R_eff, ZERO) THEN FDiv(ONE, R_eff) ELSE ZERO,
                 TCR         |-> R_eff,
                 K           |-> IF FGt(R_eff, ZERO) /\ R_eff # INF /\ FGt(prm.A_nom, ZERO)
                                 THEN FDiv(F(1, 0 - 4), FMul(R_eff, prm.A_nom)) ELSE ZERO]]

\* lines 441-461 (spr), 708-722 (plast): R_c of the contact conductance h_c and the
\* percent of contact, clamped to 0..100
TabResist(kind, prm, gap, f, p, raw, h_c) ==
    TabCombine(kind, prm, gap, f, p,
               IF FLt(raw, ZERO) THEN ZERO ELSE IF FGt(raw, F(100, 0)) THEN F(100, 0) ELSE raw,
               h_c,
               IF FGt(h_c, ZERO) /\ FGt(prm.A_nom, ZERO)
               THEN FDiv(ONE, FMul(h_c, prm.A_nom)) ELSE INF)

\* lines 428-517 (spr), 695-770 (plast): the detail row of one (interface, force) pair
TabRow(kind, prm, gap, f) ==
    LET p == IF FGt(prm.A_nom, ZERO) THEN FDiv(f, prm.A_nom) ELSE ZERO IN
    TabResist(kind, prm, gap, f, p,
              IF FGt(prm.hc_soft, ZERO) THEN FDiv(FMul(F(100, 0), p), prm.hc_soft) ELSE ZERO,
              TabContact(kind, prm, p))

\* the row r appended to the detail table and its TCR to the accumulation, or the
\* exception that ended the computation of r
TabStore(st, r) ==
    IF r.exc # "" THEN [st EXCEPT !.exc = r.exc]
    ELSE [st EXCEPT !.rows = Append(@, r.row),
                    !.acc = AccAppend(@, r.row.interface,
                              [force |-> r.row.force_N, R_val |-> r.row.TCR], 1)]

\* the loop over force_values for one interface
RECURSIVE TabForceLoop(_, _, _, _, _, _)
TabForceLoop(st, kind, prm, gap, force_values, j) ==
    IF j > Len(force_values) \/ st.exc # "" THEN st
    ELSE TabForceLoop(TabStore(st, TabRow(kind, prm, gap, force_values[j])),
                      kind, prm, gap, force_values, j + 1)

\* one interface with has_tcr: its parameters prm, its configuration at position c of
\* interface_config (0 for none), then its forces
TabForInterface(st, kind, sys, force_values, c, interface_config, prm) ==
    LET ti == IF c = 0 THEN 0
              ELSE FirstTim(sys.system_tims, interface_config[c].tim_var, 1)
    IN IF prm.exc # "" THEN [st EXCEPT !.exc = prm.exc]
       ELSE TabForceLoop(st, kind, prm,
                TabGap(sys.system_tims, ti,
                       IF c = 0 THEN EMPTY ELSE interface_config[c].thickness_entry,
                       prm.A_nom),
                force_values, 1)

\* the loop over tcr_interfaces: the interfaces of system_interfaces with has_tcr
RECURSIVE TabIfaceLoop(_, _, _, _, _, _)
TabIfaceLoop(st, kind, sys, interface_config, force_values, pos) ==
    IF pos > Len(sys.system_interfaces) \/ st.exc # "" THEN st
    ELSE TabIfaceLoop(IF ~sys.system_interfaces[pos].has_tcr THEN st
                      ELSE TabForInterface(st, kind, sys, force_values,
                               ConfigAt(interface_config, pos, 1), interface_config,
                               TabParams(kind, sys.system_materials,
                                         sys.system_interfaces[pos])),
                      kind, sys, interface_config, force_values, pos + 1)

\* lines 537-553: R_U, the sum of the layer resistances that are not infinite
RECURSIVE TabRU(_, _, _, _)
TabRU(geoms, mats, i, total) ==
    IF i > Len(geoms) THEN total
    ELSE LET g     == geoms[i]
             k_mat == Get(MatOf(mats, g.name), "k")
             den   == FMul(k_mat.v, FMul(g.length, g.width))
         IN TabRU(geoms, mats, i + 1,
                IF FloatOk(k_mat) /\ FGt(k_mat.v, ZERO) /\ FGt(g.length, ZERO)
                   /\ FGt(g.width, ZERO) /\ den # ZERO
                THEN FAdd(total, FDiv(g.height, den))
                ELSE total)

\* lines 556-557: the smallest positive nominal area of the interfaces with has_tcr
RECURSIVE TabAMin(_, _, _)
TabAMin(ifaces, i, best) ==
    IF i > Len(ifaces) THEN best
    ELSE TabAMin(ifaces, i + 1,
             IF ifaces[i].has_tcr /\ FGt(ifaces[i].A_nominal, ZERO)
                /\ (best = ZERO \/ FLt(ifaces[i].A_nominal, best))
             THEN ifaces[i].A_nominal ELSE best)

\* lines 564-570: every entry within 1e-12 of f is added; infinity is absorbing
RECURSIVE TabSumEntries(_, _, _, _)
TabSumEntries(entries, f, i, sum) ==
    IF i > Len(entries) THEN sum
    ELSE TabSumEntries(entries, f, i + 1,
             IF FLt(FAbs(FSub(entries[i].force, f)), F(1, 0 - 12))
             THEN (IF entries[i].R_val = INF THEN INF
                   ELSE IF sum # INF THEN FAdd(sum, entries[i].R_val) ELSE sum)
             ELSE sum)

RECURSIVE TabSum(_, _, _, _)
TabSum(acc, f, i, sum) ==
    IF i > Len(acc) THEN sum
    ELSE TabSum(acc, f, i + 1, TabSumEntries(acc[i].entries, f, 1, sum))

\* lines 561-584: the summary row of the force f
TabQRow(acc, f, R_U, A_min, dT) ==
    LET sum_TCR_K == TabSum(acc, f, 1, ZERO)
        open      == R_U = INF \/ sum_TCR_K = INF
        R_total   == IF open THEN INF ELSE FAdd(R_U, sum_TCR_K)
        flows     == ~open /\ FGt(R_total, ZERO) /\ FGt(A_min, ZERO)
        h_sys     == IF flows THEN FDiv(ONE, FMul(R_total, A_min)) ELSE ZERO
    IN [force_N   |-> f,
        R_U       |-> R_U,
        sum_TCR_K |-> sum_TCR_K,
        R_total   |-> R_total,
        h_sys     |-> h_sys,
        Q         |-> IF flows THEN FMul(FMul(h_sys, A_min), dT) ELSE ZERO]

\* lines 349-357: the forces float() accepts, in order
RECURSIVE ForceValues(_, _)
ForceValues(system_forces, i) ==
    IF i > Len(system_forces) THEN <<>>
    ELSE (IF FloatOk(system_forces[i]) THEN <<system_forces[i].v>> ELSE <<>>)
         \o ForceValues(system_forces, i + 1)

Dialog(kind, text) ==
    [kind |-> kind, exc |-> "", dialog |-> text, tcr_rows |-> <<>>, q_rows |-> <<>>]

\* the loops have run and left st: the two tables, or the exception
TabOutcome(kind, force_values, st, R_U, A_min, dT) ==
    IF st.exc # ""
    THEN [kind |-> kind, exc |-> st.exc, dialog |-> "", tcr_rows |-> <<>>, q_rows |-> <<>>]
    ELSE [kind |-> kind, exc |-> "", dialog |-> "", tcr_rows |-> st.rows,
          q_rows |-> [j \in 1..Len(force_values) |->
                         TabQRow(st.acc, force_values[j], R_U, A_min, dT)]]

\* the runner of the given kind on the system sys and the tab's configuration and
\* temperature entries
TabRun(kind, sys, interface_config, ent_thot, ent_tcold) ==
    LET force_values == ForceValues(sys.system_forces, 1)
    IN IF interface_config = <<>> THEN Dialog(kind, "Brak interfejsow z TCR do symulacji")
       ELSE IF ~FloatOk(ent_thot) \/ ~FloatOk(ent_tcold)
       THEN Dialog(kind, "T_hot i T_cold musza byc liczbami")
       ELSE IF force_values = <<>>
       THEN Dialog(kind, "Brak zdefiniowanych przypadkow nacisku (forces)")
       ELSE IF \A k \in 1..Len(sys.system_interfaces) : ~sys.system_interfaces[k].has_tcr
       THEN Dialog(kind, "Nie ma interfejsow z TCR")
       ELSE TabOutcome(kind, force_values,
                TabIfaceLoop([exc |-> "", rows |-> <<>>, acc |-> <<>>], kind, sys,
                             interface_config, force_values, 1),
                TabRU(sys.system_geometries, sys.system_materials, 1, ZERO),
                TabAMin(sys.system_interfaces, 1, ZERO),
                FAbs(FSub(ent_thot.v, ent_tcold.v)))

run_mikic_spr(sys, interface_config, ent_thot, ent_tcold) ==
    TabRun("spr", sys, interface_config, ent_thot, ent_tcold)

run_mikic_plast(sys, interface_config, ent_thot, ent_tcold) ==
    TabRun("plast", sys, interface_config, ent_thot, ent_tcold)

(***************************************************************************)
(* The inputs the model draws from.                                        *)
(***************************************************************************)
\* longest force list
MaxForces == 2

\* the stack A / B / C / D / E; E has zero length, so the interface D -> E has
\* A_nominal = 0
gA == Geometry("A", F(1, 0), F(1, 0), F(1, 0 - 2))
gB == Geometry("B", F(2, 0), F(1, 0), F(2, 0 - 2))
gC == Geometry("C", F(1, 0), F(5, 0 - 1), F(1, 0 - 2))
gD == Geometry("D", F(1, 0), F(1, 0), F(1, 0 - 2))
gE == Geometry("E", ZERO, F(1, 0), F(1, 0 - 2))
\* the geometry SystemManager.import_from_file builds for the line "N -1 1 0.01"
gN == Geometry("N", F(0 - 1, 0), F(1, 0), F(1, 0 - 2))

GeomStacks == {<<gA, gB, gC, gD, gE>>, <<gA, gB, gC, gD, gN>>}

\* the interfaces of a stack, as SystemManager.rebuild_interfaces derives them
InterfacesOf(geoms) ==
    [i \in 1..(Len(geoms) - 1) |-> Interface(geoms[i], geoms[i + 1], TRUE)]

Material(k, young, poisson, sigma, m, hc) ==
    [material_name |-> TEXT, k |-> k, young |-> young, poisson |-> poisson,
     sigma |-> sigma, m |-> m, hc |-> hc]

matA == Material(Num(F(200, 0)), Num(F(100, 0)), Num(F(3, 0 - 1)), Num(F(3, 0)),
                 Num(F(3, 0 - 1)), Num(F(50, 0)))
matB == Material(Num(F(100, 0)), Num(F(200, 0)), Num(F(3, 0 - 1)), Num(F(4, 0)),
                 Num(F(4, 0 - 1)), Num(F(100, 0)))
\* a roughness that is not a number
matBad == [matA EXCEPT !.sigma = TEXT]

\* A's roughness does not parse: the interface A -> B cannot be resolved
MaterialMaps ==
    {[n \in {"A", "B", "C", "D", "E", "N"} |->
        IF n = "A" THEN matBad ELSE IF n \in {"B", "D"} THEN matB ELSE matA]}

Tim(id, name, k, type, pd) ==
    [id |-> id, name |-> name, k |-> k, type |-> type, pressure_dependent |-> pd]
\* the library handed to set_context: a paste and a pressure-dependent gas; the TIMs
\* MaterialsManager.import_tim_file appends for the lines "vac inf" and "neg -1"; the
\* TIM MaterialsManager.add_tim appends; the TIM the materials tab saves for the name
\* "bare", an empty k and the pressure-dependent box checked
TimLists ==
    {<<Tim(1, "paste", Num(F(2, 0)), "paste", FALSE),
       Tim(2, "air", Num(F(26, 0 - 3)), "gas", TRUE),
       Tim(3, "vac", Num(INF), "gas", FALSE),
       Tim(4, "neg", Num(F(0 - 1, 0)), "gas", FALSE),
       Tim(5, "", EMPTY, "gas", FALSE),
       Tim(6, "bare", EMPTY, "gas", TRUE)>>}

\* the force lists: no force, a force below the lookup tolerance of 1e-9, a negative
\* and a large force
ForceLists ==
    UNION {[1..n -> {ZERO, F(4, 0 - 10), F(0 - 1, 3), F(1, 8)}] : n \in 0..MaxForces}

Cfg(idx, iface, tim_var, thickness_entry) ==
    [idx |-> idx, interface |-> iface, tim_var |-> tim_var,
     thickness_entry |-> thickness_entry]

\* the interface_configs a caller passes for the interfaces ifs.  "-" names a TIM
\* that is not in the library; '' is the name of a TIM add_tim has just created.
ConfigsOf(ifs) ==
    IF Len(ifs) < 4 THEN {<<>>}
    ELSE {<<>>,
          <<Cfg(1, ifs[2], "-", EMPTY)>>,
          <<Cfg(1, ifs[2], "-", EMPTY), Cfg(2, ifs[3], "paste", Comma(F(1, 0 - 3)))>>,
          <<Cfg(0, ifs[1], "paste", Num(F(1, 0 - 3))), Cfg(1, ifs[2], "air", EMPTY)>>,
          <<Cfg(0, ifs[1], "-", EMPTY), Cfg(3, ifs[4], "-", EMPTY)>>,
          <<Cfg(1, ifs[2], "vac", Num(F(1, 0 - 3)))>>,
          <<Cfg(2, ifs[3], "neg", Num(F(1, 0 - 3)))>>,
          <<Cfg(0, ifs[1], "-", EMPTY), Cfg(2, ifs[3], "", EMPTY)>>,
          <<Cfg(1, ifs[2], "paste", TEXT), Cfg(3, ifs[4], "paste", Comma(F(1, 0 - 3)))>>,
          <<Cfg(2, ifs[3], "bare", Num(F(1, 0 - 3)))>>}

\* the interfaces of a stack with the has_tcr flags the system tab has set
FlaggedInterfaces(geoms, flags) ==
    [i \in 1..(Len(geoms) - 1) |-> Interface(geoms[i], geoms[i + 1], flags[i])]

\* app.system_forces as ForcesTab._save_forces leaves it: '' for an entry that is
\* empty or not a number
RawForceLists ==
    UNION {[1..n -> {EMPTY, Num(F(0 - 1, 3)), Num(F(1, 8))}] : n \in 0..MaxForces}

\* the systems the other tabs store: the stack the system tab has stored, with no
\* interface flagged, with B -> C, C -> D and D -> E flagged, or with A -> B and
\* B -> C flagged
AppSystems ==
    {[system_geometries |-> g, system_interfaces |-> FlaggedInterfaces(g, fl),
      system_materials |-> m, system_tims |-> t, system_forces |-> f] :
        g \in {<<gA, gB, gC, gD, gE>>},
        fl \in {<<FALSE, FALSE, FALSE, FALSE>>, <<FALSE, TRUE, TRUE, TRUE>>,
                <<TRUE, TRUE, FALSE, FALSE>>},
        m \in MaterialMaps, t \in TimLists, f \in RawForceLists}

(***************************************************************************)
(* The state: one SimulationManager, the arguments its caller has prepared *)
(* and what the last call left behind; and the application's system, the   *)
(* simulation tab and what its last runner showed.                         *)
(***************************************************************************)
VARIABLES
    geometries,   \* self.geometries
    interfaces,   \* self.interfaces
    materials,    \* self.materials
    tims,         \* self.tims
    forces,       \* self.forces
    events,       \* the (event_type, data) pairs the last call of the manager notified
    args,         \* the caller's model choice, interface_configs and temperatures
    ret,          \* what run_model left for these arguments, NoRun before the call
    app,          \* app.system_geometries, system_interfaces, system_materials,
                  \* system_tims and system_forces
    tab,          \* the tab's interface_config, ent_thot and ent_tcold
    shown,        \* what the runner clicked last showed, NoShow before the click
    probe,        \* the kernel, the parameter bundle and the pressure of a kernel call
    h_ret,        \* what the kernel left for them, NoCall before the call
    sys_geometries,  \* SystemManager.geometries
    sys_interfaces,  \* SystemManager.interfaces
    sys_events,      \* the (event_type, data) pairs its last call notified
    sys_ret,         \* the success flag its last call returned, FALSE before a call
    mm_system,       \* MaterialsManager._system_geoms and _system_interfaces
    mm_materials,    \* MaterialsManager.materials
    mm_tims,         \* MaterialsManager.tims
    mm_next_id,      \* MaterialsManager._tim_next_id
    mm_ret,          \* the last call and what it returned, NoVerdict before a call
    mtab,            \* the materials tab's materials, tims and _tim_next_id
    p_ret            \* the index of the interface of the last get_interface_params
                     \* call and what it returned, NoLookup before the call

manager == <<geometries, interfaces, materials, tims, forces, events, args, ret>>
gui     == <<app, tab, shown>>
kernel  == <<probe, h_ret>>
system  == <<sys_geometries, sys_interfaces, sys_events, sys_ret>>
library == <<mm_system, mm_materials, mm_tims, mm_next_id, mm_ret,
             mtab>>
vars    == <<geometries, interfaces, materials, tims, forces, events, args, ret,
             app, tab, shown, probe, h_ret,
             sys_geometries, sys_interfaces, sys_events, sys_ret,
             mm_system, mm_materials, mm_tims, mm_next_id, mm_ret,
             mtab, p_ret>>

NoArgs == [model |-> "", interface_configs |-> <<>>, thot |-> ZERO, tcold |-> ZERO]
NoRun  == [exc |-> "none", ok |-> FALSE, msg |-> "", tcr |-> <<>>, q |-> <<>>,
           n_params |-> 0, n_calc |-> 0]
NoShow == [kind |-> "", exc |-> "none", dialog |-> "", tcr_rows |-> <<>>, q_rows |-> <<>>]
NoProbe == [model |-> "", params |-> None, P |-> ZERO]
NoCall  == [exc |-> "none", h_c |-> ZERO]
NoVerdict == [call |-> "", ok |-> FALSE, errors |-> {}]
NoLookup == [called |-> FALSE, iface |-> 0, params |-> None]

Init ==
    /\ geometries = <<>>
    /\ interfaces = <<>>
    /\ materials = [n \in {} |-> NoFields]
    /\ tims = <<>>
    /\ forces = <<>>
    /\ events = <<>>
    /\ args = NoArgs
    /\ ret = NoRun
    /\ app = [system_geometries |-> <<>>, system_interfaces |-> <<>>,
              system_materials |-> [n \in {} |-> NoFields], system_tims |-> <<>>,
              system_forces |-> <<>>]
    /\ tab = [interface_config |-> <<>>, ent_thot |-> EMPTY, ent_tcold |-> EMPTY]
    /\ shown = NoShow
    /\ probe = NoProbe
    /\ h_ret = NoCall
    /\ sys_geometries = <<>>
    /\ sys_interfaces = <<>>
    /\ sys_events = <<>>
    /\ sys_ret = FALSE
    /\ mm_system = [geoms |-> <<>>, interfaces |-> <<>>]
    /\ mm_materials = [n \in {} |-> NoFields]
    /\ mm_tims = <<>>
    /\ mm_next_id = 1
    /\ mm_ret = NoVerdict
    /\ mtab = [materials |-> [n \in {} |-> NoFields], tims |-> <<>>, tim_next_id |-> 1]
    /\ p_ret = NoLookup

\* set_context replaces the five collections and notifies 'sim_context_set'; the
\* caller's interface list is rebuilt from the new context
set_context(g, i, m, t, f) ==
    /\ geometries' = g
    /\ interfaces' = i
    /\ materials' = m
    /\ tims' = t
    /\ forces' = f
    /\ events' = <<[event_type |-> "sim_context_set",
                     data |-> [geoms |-> Len(g), interfaces |-> Len(i)]]>>
    /\ args' = NoArgs
    /\ ret' = NoRun
    /\ p_ret' = NoLookup
    /\ UNCHANGED gui
    /\ UNCHANGED kernel
    /\ UNCHANGED system
    /\ UNCHANGED library

SetContext ==
    \E g \in GeomStacks, m \in MaterialMaps, t \in TimLists, f \in ForceLists :
        set_context(g, InterfacesOf(g), m, t, f)

\* the caller chooses the kernel, a TIM and a thickness per interface, and the
\* temperatures
Configure ==
    \E model \in Kernels, cfgs \in ConfigsOf(interfaces),
       tt \in {<<F(350, 0), F(300, 0)>>, <<F(300, 0), F(350, 0)>>} :
        /\ args' = [model |-> model, interface_configs |-> cfgs,
                    thot |-> tt[1], tcold |-> tt[2]]
        /\ ret' = NoRun
        /\ UNCHANGED <<geometries, interfaces, materials, tims, forces, events>>
        /\ UNCHANGED gui
        /\ UNCHANGED kernel
        /\ UNCHANGED system
        /\ UNCHANGED library
        /\ UNCHANGED p_ret

\* RunModel with a run that consumes the force list it iterates
RunModel_ConsumesForces ==
    /\ ret' = run_model(geometries, materials, tims, forces, args.model,
                        args.interface_configs, args.thot, args.tcold)
    /\ events' = <<>>
    /\ forces' = IF forces = <<>> THEN forces ELSE Tail(forces)
    /\ UNCHANGED <<geometries, interfaces, materials, tims, args>>
    /\ UNCHANGED gui
    /\ UNCHANGED kernel
    /\ UNCHANGED system
    /\ UNCHANGED library
    /\ UNCHANGED p_ret

RunModel ==
    /\ ret' = run_model(geometries, materials, tims, forces, args.model,
                        args.interface_configs, args.thot, args.tcold)
    /\ events' = <<>>
    /\ UNCHANGED <<geometries, interfaces, materials, tims, forces, args>>
    /\ UNCHANGED gui
    /\ UNCHANGED kernel
    /\ UNCHANGED system
    /\ UNCHANGED library
    /\ UNCHANGED p_ret

Spec == Init /\ [][SetContext \/ Configure \/ RunModel]_vars

\* The other tabs store a system in the application
EditSystem ==
    \E a \in AppSystems :
        /\ app' = a
        /\ shown' = NoShow
        /\ UNCHANGED tab
        /\ UNCHANGED manager
        /\ UNCHANGED kernel
        /\ UNCHANGED system
        /\ UNCHANGED library
        /\ UNCHANGED p_ret

\* SimulationTab._rebuild_interface_list: one row per interface with has_tcr, the
\* first TIM selected and the thickness entry empty; with no such interface the
\* method returns before it replaces interface_config
RECURSIVE DefaultRows(_, _, _)
DefaultRows(sys, pos, tim_name) ==
    IF pos > Len(sys.system_interfaces) THEN <<>>
    ELSE (IF sys.system_interfaces[pos].has_tcr
          THEN <<Cfg(pos - 1, sys.system_interfaces[pos], tim_name, EMPTY)>>
          ELSE <<>>) \o DefaultRows(sys, pos + 1, tim_name)

rebuild_interface_list(sys, interface_config) ==
    IF \A k \in 1..Len(sys.system_interfaces) : ~sys.system_interfaces[k].has_tcr
    THEN interface_config
    ELSE DefaultRows(sys, 1, IF sys.system_tims = <<>> THEN ""
                             ELSE sys.system_tims[1].name)

\* SimulationTab._on_visibility
OnVisibility ==
    /\ tab' = [tab EXCEPT !.interface_config = rebuild_interface_list(app, @)]
    /\ shown' = NoShow
    /\ UNCHANGED app
    /\ UNCHANGED manager
    /\ UNCHANGED kernel
    /\ UNCHANGED system
    /\ UNCHANGED library
    /\ UNCHANGED p_ret

\* the user selects a TIM and types a thickness in the rows of the interface list
EditRows ==
    \E o \in {<<"paste", Num(F(1, 0 - 3))>>, <<"paste", Comma(F(1, 0 - 3))>>,
              <<"air", EMPTY>>, <<"vac", Num(F(1, 0 - 3))>>,
              <<"neg", Num(F(1, 0 - 3))>>, <<"", Num(F(1, 0 - 3))>>} :
        /\ tab.interface_config # <<>>
        /\ tab' = [tab EXCEPT !.interface_config =
                      [r \in 1..Len(@) |-> [@[r] EXCEPT !.tim_var = o[1],
                                                        !.thickness_entry = o[2]]]]
        /\ shown' = NoShow
        /\ UNCHANGED app
        /\ UNCHANGED manager
        /\ UNCHANGED kernel
        /\ UNCHANGED system
        /\ UNCHANGED library
        /\ UNCHANGED p_ret

\* the user types the boundary temperatures
EditTemps ==
    \E tt \in {<<Num(F(350, 0)), Num(F(300, 0))>>, <<Num(F(300, 0)), Num(F(350, 0))>>,
               <<Comma(F(350, 0)), Num(F(300, 0))>>} :
        /\ tab' = [tab EXCEPT !.ent_thot = tt[1], !.ent_tcold = tt[2]]
        /\ shown' = NoShow
        /\ UNCHANGED app
        /\ UNCHANGED manager
        /\ UNCHANGED kernel
        /\ UNCHANGED system
        /\ UNCHANGED library
        /\ UNCHANGED p_ret

\* the button 'Mikic-Sprezyste'
RunMikicSpr ==
    /\ shown' = run_mikic_spr(app, tab.interface_config, tab.ent_thot, tab.ent_tcold)
    /\ UNCHANGED <<app, tab>>
    /\ UNCHANGED manager
    /\ UNCHANGED kernel
    /\ UNCHANGED system
    /\ UNCHANGED library
    /\ UNCHANGED p_ret

\* the button 'Mikic-Plastyczne'
RunMikicPlast ==
    /\ shown' = run_mikic_plast(app, tab.interface_config, tab.ent_thot, tab.ent_tcold)
    /\ UNCHANGED <<app, tab>>
    /\ UNCHANGED manager
    /\ UNCHANGED kernel
    /\ UNCHANGED system
    /\ UNCHANGED library
    /\ UNCHANGED p_ret

TabSpec ==
    Init /\ [][EditSystem \/ OnVisibility \/ EditRows \/ EditTemps \/ RunMikicSpr
                  \/ RunMikicPlast]_vars

\* a caller prepares a kernel call at no, a negative or a large pressure, with a
\* parameter bundle whose fields are zero, negative, ordinary, or so small that a
\* product of two of them underflows
Probe ==
    \E model \in Kernels,
       params \in [ok : {TRUE}, name : {<<"B", "C">>},
                   sig_s : {ZERO, F(5, 0 - 6)},
                   m_s : {ZERO, F(3, 0 - 162), F(5, 0 - 1)},
                   k_s : {F(0 - 1, 0), F(133, 0)},
                   e_s : {ZERO, F(3, 0 - 162), F(73, 9)},
                   hc_soft : {ZERO, F(0 - 1, 6), F(5, 7), INF},
                   A_nom : {F(5, 0 - 1)}],
       P \in {ZERO, F(0 - 2, 3), F(2, 8)} :
        /\ probe' = [model |-> model, params |-> params, P |-> P]
        /\ h_ret' = NoCall
        /\ UNCHANGED manager
        /\ UNCHANGED gui
        /\ UNCHANGED system
        /\ UNCHANGED library
        /\ UNCHANGED p_ret

\* calc_func(params, Pressure)
CallKernel ==
    /\ probe # NoProbe
    /\ h_ret' = IF calc_exc(probe.model, probe.params, probe.P) # ""
                THEN [exc |-> calc_exc(probe.model, probe.params, probe.P), h_c |-> ZERO]
                ELSE [exc |-> "", h_c |-> calc_func(probe.model, probe.params, probe.P)]
    /\ UNCHANGED probe
    /\ UNCHANGED manager
    /\ UNCHANGED gui
    /\ UNCHANGED system
    /\ UNCHANGED library
    /\ UNCHANGED p_ret

KernelSpec == Init /\ [][Probe \/ CallKernel]_vars

(***************************************************************************)
(* SystemManager.  A notification is [event_type, removed_tcrs]: the data  *)
(* of 'interfaces_rebuilt' is the list of removed pairs, the data of the   *)
(* other events is not kept.                                               *)
(***************************************************************************)
\* B after an edit of its dimensions
gB2 == Geometry("B", F(5, 0 - 1), F(1, 0), F(2, 0 - 2))

\* the geometries the dialogs and the calls hand to the manager
SysGeoms == {gA, gB, gB2, gC}

\* the lines of an import file: the number of whitespace-separated parts and the
\* first four of them
Line(n_parts, name, length, width, height) ==
    [n_parts |-> n_parts, name |-> name, length |-> length, width |-> width,
     height |-> height]
LineOf(g) == Line(4, g.name, Num(g.length), Num(g.width), Num(g.height))

\* the indices a caller passes
Indices == {0 - 1, 0, 1, 3}

Event(event_type, removed_tcrs) == [event_type |-> event_type, removed_tcrs |-> removed_tcrs]

\* _name_exists(name, exclude_index); exclude is a position from 1, 0 for None
name_exists(geoms, name, exclude) ==
    \E i \in 1..Len(geoms) : i # exclude /\ geoms[i].name = name

Key(iface) == <<iface.geom_top.name, iface.geom_bottom.name>>

\* old_interfaces.get(key, False) for the dictionary built from old: the flag of the
\* last interface of that key
OldFlag(old, key) ==
    LET hits == {i \in 1..Len(old) : Key(old[i]) = key} IN
    IF hits = {} THEN FALSE
    ELSE old[CHOOSE i \in hits : \A j \in hits : j <= i].has_tcr

\* the keys of the dictionary in insertion order
RECURSIVE OldKeys(_, _)
OldKeys(old, i) ==
    IF i > Len(old) THEN <<>>
    ELSE IF \E j \in 1..(i - 1) : Key(old[j]) = Key(old[i]) THEN OldKeys(old, i + 1)
    ELSE <<Key(old[i])>> \o OldKeys(old, i + 1)

\* rebuild_interfaces with the flag of an interface taken from the interface that
\* was at its position
rebuild_interfaces_ByPosition(geoms, old) ==
    LET new_interfaces ==
            [i \in 1..(Len(geoms) - 1) |->
                Interface(geoms[i], geoms[i + 1], i <= Len(old) /\ old[i].has_tcr)]
        Gone(k) == OldFlag(old, k) /\ \A i \in 1..Len(new_interfaces) : Key(new_interfaces[i]) # k
    IN [interfaces |-> new_interfaces,
        removed_tcrs |-> SelectSeq(OldKeys(old, 1), Gone)]

\* rebuild_interfaces: the new interface list and the removed_tcrs it notifies
rebuild_interfaces(geoms, old) ==
    LET new_interfaces ==
            [i \in 1..(Len(geoms) - 1) |->
                Interface(geoms[i], geoms[i + 1], OldFlag(old, <<geoms[i].name, geoms[i + 1].name>>))]
        Gone(k) == OldFlag(old, k) /\ \A i \in 1..Len(new_interfaces) : Key(new_interfaces[i]) # k
    IN [interfaces |-> new_interfaces,
        removed_tcrs |-> SelectSeq(OldKeys(old, 1), Gone)]

\* a call that returns False having changed and notified nothing
Refused ==
    /\ sys_ret' = FALSE
    /\ sys_events' = <<>>
    /\ UNCHANGED <<sys_geometries, sys_interfaces>>

\* the geometries replaced by geoms, the interfaces rebuilt, and the event of the
\* call notified after 'interfaces_rebuilt'
Rebuilt(geoms, event_type) ==
    LET r == rebuild_interfaces(geoms, sys_interfaces) IN
    /\ sys_geometries' = geoms
    /\ sys_interfaces' = r.interfaces
    /\ sys_events' = <<Event("interfaces_rebuilt", r.removed_tcrs), Event(event_type, <<>>)>>
    /\ sys_ret' = TRUE

\* add_geometry without the test of the name
add_geometry_NoNameCheck(geometry, at_end, index) ==
    LET n  == Len(sys_geometries)
        at == IF at_end THEN n
              ELSE IF index < 0 THEN (IF n + index < 0 THEN 0 ELSE n + index)
              ELSE IF index > n THEN n ELSE index
    IN Rebuilt(SubSeq(sys_geometries, 1, at) \o <<geometry>>
                  \o SubSeq(sys_geometries, at + 1, n),
               "geometry_added")

\* add_geometry(geometry, index); at_end stands for index None, and list.insert
\* counts a negative index from the end and clips it to the list
add_geometry(geometry, at_end, index) ==
    LET n  == Len(sys_geometries)
        at == IF at_end THEN n
              ELSE IF index < 0 THEN (IF n + index < 0 THEN 0 ELSE n + index)
              ELSE IF index > n THEN n ELSE index
    IN IF name_exists(sys_geometries, geometry.name, 0) THEN Refused
       ELSE Rebuilt(SubSeq(sys_geometries, 1, at) \o <<geometry>>
                       \o SubSeq(sys_geometries, at + 1, n),
                    "geometry_added")

\* remove_geometry that leaves the interface list as it was
remove_geometry_NoRebuild(index) ==
    IF 0 <= index /\ index < Len(sys_geometries)
    THEN /\ sys_geometries' = SubSeq(sys_geometries, 1, index)
                                \o SubSeq(sys_geometries, index + 2, Len(sys_geometries))
         /\ sys_events' = <<Event("geometry_removed", <<>>)>>
         /\ sys_ret' = TRUE
         /\ UNCHANGED sys_interfaces
    ELSE Refused

\* remove_geometry(index)
remove_geometry(index) ==
    IF 0 <= index /\ index < Len(sys_geometries)
    THEN Rebuilt(SubSeq(sys_geometries, 1, index)
                    \o SubSeq(sys_geometries, index + 2, Len(sys_geometries)),
                 "geometry_removed")
    ELSE Refused

\* update_geometry(index, geometry)
update_geometry(index, geometry) ==
    IF ~(0 <= index /\ index < Len(sys_geometries)) THEN Refused
    ELSE IF name_exists(sys_geometries, geometry.name, index + 1) THEN Refused
    ELSE Rebuilt([sys_geometries EXCEPT ![index + 1] = geometry], "geometry_updated")

\* set_tcr_flag(interface_index, value)
set_tcr_flag(interface_index, value) ==
    IF 0 <= interface_index /\ interface_index < Len(sys_interfaces)
    THEN /\ sys_interfaces' = [sys_interfaces EXCEPT ![interface_index + 1].has_tcr = value]
         /\ sys_events' = <<Event("tcr_changed", <<>>)>>
         /\ sys_ret' = TRUE
         /\ UNCHANGED sys_geometries
    ELSE Refused

\* import_from_file(file_path) for a file of these lines: every line needs four
\* parts and three numbers, and the names must differ
import_from_file(lines) ==
    LET geoms == [i \in 1..Len(lines) |->
                    Geometry(lines[i].name, lines[i].length.v, lines[i].width.v,
                             lines[i].height.v)]
        parses == \A i \in 1..Len(lines) :
                      /\ lines[i].n_parts >= 4
                      /\ FloatOk(lines[i].length) /\ FloatOk(lines[i].width)
                      /\ FloatOk(lines[i].height)
    IN IF ~parses THEN Refused
       ELSE IF \E i, j \in 1..Len(lines) : i # j /\ lines[i].name = lines[j].name
            THEN Refused
       ELSE Rebuilt(geoms, "imported")

AddGeometry ==
    /\ \E g \in SysGeoms, at_end \in BOOLEAN, index \in Indices :
          add_geometry(g, at_end, index)
    /\ UNCHANGED manager
    /\ UNCHANGED gui
    /\ UNCHANGED kernel
    /\ UNCHANGED library
    /\ UNCHANGED p_ret

RemoveGeometry ==
    /\ \E index \in Indices : remove_geometry(index)
    /\ UNCHANGED manager
    /\ UNCHANGED gui
    /\ UNCHANGED kernel
    /\ UNCHANGED library
    /\ UNCHANGED p_ret

UpdateGeometry ==
    /\ \E index \in Indices, g \in SysGeoms : update_geometry(index, g)
    /\ UNCHANGED manager
    /\ UNCHANGED gui
    /\ UNCHANGED kernel
    /\ UNCHANGED library
    /\ UNCHANGED p_ret

SetTcrFlag ==
    /\ \E interface_index \in Indices, value \in BOOLEAN :
          set_tcr_flag(interface_index, value)
    /\ UNCHANGED manager
    /\ UNCHANGED gui
    /\ UNCHANGED kernel
    /\ UNCHANGED library
    /\ UNCHANGED p_ret

\* the files: an empty file; C over A; N alone, with a negative length; a line of
\* three parts; a decimal comma; the name B twice
ImportFromFile ==
    /\ \E lines \in {<<>>,
                     <<LineOf(gC), LineOf(gA)>>,
                     <<LineOf(gN)>>,
                     <<LineOf(gA), Line(3, "B", Num(F(1, 0)), Num(F(1, 0)), EMPTY)>>,
                     <<LineOf(gA), Line(4, "B", Comma(F(1, 0)), Num(F(1, 0)), Num(F(1, 0)))>>,
                     <<LineOf(gB), LineOf(gC), LineOf(gB2)>>} : import_from_file(lines)
    /\ UNCHANGED manager
    /\ UNCHANGED gui
    /\ UNCHANGED kernel
    /\ UNCHANGED library
    /\ UNCHANGED p_ret

SystemSpec ==
    Init /\ [][AddGeometry \/ RemoveGeometry \/ UpdateGeometry \/ SetTcrFlag
                  \/ ImportFromFile]_vars

(***************************************************************************)
(* MaterialsManager, and MaterialsTab.save_materials.  The list of error   *)
(* messages validate_before_save returns is kept as the set of its         *)
(* (geometry, field, kind) triples.                                        *)
(***************************************************************************)
\* largest id the manager hands out
MaxTimId == 4

\* lines 92-106: the loop of import_tim_file over the lines from the i-th on; a line
\* is [n_parts, name, k]
RECURSIVE import_tims(_, _, _, _)
import_tims(lines, i, tim_list, next_id) ==
    IF i > Len(lines) THEN [tims |-> tim_list, next_id |-> next_id]
    ELSE IF lines[i].n_parts < 2 \/ ~FloatOk(lines[i].k)
         THEN import_tims(lines, i + 1, tim_list, next_id)
    ELSE import_tims(lines, i + 1,
                     Append(tim_list, Tim(next_id, lines[i].name, lines[i].k, "gas", FALSE)),
                     next_id + 1)

\* validate_before_save without the float() test of lines 190-194
validate_before_save_NoNumericTest(ifs, mats, tim_list) ==
    LET with_tcr == {i \in 1..Len(ifs) : ifs[i].has_tcr}
        required == {ifs[i].geom_top.name : i \in with_tcr}
                        \cup {ifs[i].geom_bottom.name : i \in with_tcr}
        fields   == {"material_name", "k", "young", "poisson", "sigma", "m", "hc"}
        Absent(g, f) == f \notin DOMAIN MatOf(mats, g) \/ MatOf(mats, g)[f] = EMPTY
        errors   == {<<c[1], c[2], "brak pola">> : c \in {d \in required \X fields : Absent(d[1], d[2])}}
    IN IF with_tcr # {} /\ tim_list = <<>> THEN [ok |-> FALSE, errors |-> {}]
       ELSE [ok |-> errors = {}, errors |-> errors]

\* validate_before_save on the interfaces, materials and TIMs given
validate_before_save(ifs, mats, tim_list) ==
    LET with_tcr == {i \in 1..Len(ifs) : ifs[i].has_tcr}
        required == {ifs[i].geom_top.name : i \in with_tcr}
                        \cup {ifs[i].geom_bottom.name : i \in with_tcr}
        fields   == {"material_name", "k", "young", "poisson", "sigma", "m", "hc"}
        Absent(g, f) == f \notin DOMAIN MatOf(mats, g) \/ MatOf(mats, g)[f] = EMPTY
        errors   == {<<c[1], c[2], "brak pola">> : c \in {d \in required \X fields : Absent(d[1], d[2])}}
                        \cup {<<c[1], c[2], "nieprawidlowa wartosc">> :
                                 c \in {d \in required \X fields :
                                          /\ ~Absent(d[1], d[2])
                                          /\ d[2] # "material_name"
                                          /\ ~FloatOk(MatOf(mats, d[1])[d[2]])}}
    IN IF with_tcr # {} /\ tim_list = <<>> THEN [ok |-> FALSE, errors |-> {}]
       ELSE [ok |-> errors = {}, errors |-> errors]

\* set_system(geoms, interfaces): A / B / C with no interface flagged, or A -> B
SetSystem ==
    /\ \E fl \in {<<FALSE, FALSE>>, <<TRUE, FALSE>>} :
          mm_system' = [geoms |-> <<gA, gB, gC>>,
                        interfaces |-> FlaggedInterfaces(<<gA, gB, gC>>, fl)]
    /\ mm_ret' = [NoVerdict EXCEPT !.call = "set_system"]
    /\ UNCHANGED <<mm_materials, mm_tims, mm_next_id, mtab>>
    /\ UNCHANGED manager
    /\ UNCHANGED gui
    /\ UNCHANGED kernel
    /\ UNCHANGED system
    /\ UNCHANGED p_ret

\* set_materials(materials): nothing; A and B complete; B with a roughness that is
\* not a number; B without its hc; B with a decimal comma in k and no name
SetMaterials ==
    /\ \E m \in {[n \in {} |-> NoFields],
                  [n \in {"A", "B"} |-> matA],
                  [n \in {"A", "B"} |-> IF n = "A" THEN matA ELSE matBad],
                  [n \in {"A", "B"} |->
                      IF n = "A" THEN matA
                      ELSE [f \in DOMAIN matA \ {"hc"} |-> matA[f]]],
                  [n \in {"A", "B"} |->
                      IF n = "A" THEN matA
                      ELSE [matA EXCEPT !.k = Comma(F(15, 0 - 1)), !.material_name = EMPTY]]} :
          mm_materials' = m
    /\ mm_ret' = [NoVerdict EXCEPT !.call = "set_materials"]
    /\ UNCHANGED <<mm_system, mm_tims, mm_next_id, mtab>>
    /\ UNCHANGED manager
    /\ UNCHANGED gui
    /\ UNCHANGED kernel
    /\ UNCHANGED system
    /\ UNCHANGED p_ret

\* ensure_material_entry(name)
EnsureMaterialEntry ==
    /\ \E name \in {"B"} :
          mm_materials' =
              IF name \in DOMAIN mm_materials THEN mm_materials
              ELSE [n \in DOMAIN mm_materials \cup {name} |->
                      IF n = name
                      THEN [f \in {"material_name", "k", "young", "poisson", "sigma", "m",
                                   "hc"} |-> EMPTY]
                      ELSE mm_materials[n]]
    /\ mm_ret' = [NoVerdict EXCEPT !.call = "ensure_material_entry"]
    /\ UNCHANGED <<mm_system, mm_tims, mm_next_id, mtab>>
    /\ UNCHANGED manager
    /\ UNCHANGED gui
    /\ UNCHANGED kernel
    /\ UNCHANGED system
    /\ UNCHANGED p_ret

\* set_tims(tims): nothing; a gas and a paste; two TIMs of one id; a paste marked
\* pressure dependent
SetTims ==
    /\ \E t \in {<<>>,
                  <<Tim(1, "air", Num(F(26, 0 - 3)), "gas", TRUE),
                    Tim(2, "paste", Num(F(2, 0)), "paste", FALSE)>>,
                  <<Tim(2, "air", Num(F(26, 0 - 3)), "gas", FALSE),
                    Tim(2, "vac", Num(ZERO), "gas", FALSE)>>,
                  <<Tim(1, "paste", Num(F(2, 0)), "paste", TRUE)>>} :
          LET max_id == IF t = <<>> THEN 0
                        ELSE CHOOSE x \in {t[i].id : i \in 1..Len(t)} :
                                \A j \in 1..Len(t) : t[j].id <= x
          IN /\ mm_tims' = t
             /\ mm_next_id' = IF max_id + 1 > mm_next_id THEN max_id + 1 ELSE mm_next_id
    /\ mm_ret' = [NoVerdict EXCEPT !.call = "set_tims"]
    /\ UNCHANGED <<mm_system, mm_materials, mtab>>
    /\ UNCHANGED manager
    /\ UNCHANGED gui
    /\ UNCHANGED kernel
    /\ UNCHANGED system
    /\ UNCHANGED p_ret

\* add_tim()
AddTim ==
    /\ mm_next_id < MaxTimId
    /\ mm_tims' = Append(mm_tims, Tim(mm_next_id, "", EMPTY, "gas", FALSE))
    /\ mm_next_id' = mm_next_id + 1
    /\ mm_ret' = [call |-> "add_tim", ok |-> TRUE, errors |-> {}]
    /\ UNCHANGED <<mm_system, mm_materials, mtab>>
    /\ UNCHANGED manager
    /\ UNCHANGED gui
    /\ UNCHANGED kernel
    /\ UNCHANGED system
    /\ UNCHANGED p_ret

\* clear_all_tims()
ClearAllTims ==
    /\ mm_tims' = <<>>
    /\ mm_ret' = [call |-> "clear_all_tims", ok |-> TRUE, errors |-> {}]
    /\ UNCHANGED <<mm_system, mm_materials, mm_next_id, mtab>>
    /\ UNCHANGED manager
    /\ UNCHANGED gui
    /\ UNCHANGED kernel
    /\ UNCHANGED system
    /\ UNCHANGED p_ret

\* import_tim_file(file_path): a file without a valid line; a file with the lines
\* "vac 0", "lonely", "bad x,y" and "neg -1"
ImportTimFile ==
    /\ \E lines \in {<<[n_parts |-> 1, name |-> "lonely", k |-> EMPTY]>>,
                      <<[n_parts |-> 2, name |-> "vac", k |-> Num(ZERO)],
                        [n_parts |-> 1, name |-> "lonely", k |-> EMPTY],
                        [n_parts |-> 2, name |-> "bad", k |-> Comma(F(1, 0))],
                        [n_parts |-> 2, name |-> "neg", k |-> Num(F(0 - 1, 0))]>>} :
          LET r == import_tims(lines, 1, mm_tims, mm_next_id) IN
          /\ r.next_id <= MaxTimId
          /\ mm_tims' = r.tims
          /\ mm_next_id' = r.next_id
          /\ mm_ret' = [call |-> "import_tim_file", ok |-> r.next_id > mm_next_id,
                      errors |-> {}]
    /\ UNCHANGED <<mm_system, mm_materials, mtab>>
    /\ UNCHANGED manager
    /\ UNCHANGED gui
    /\ UNCHANGED kernel
    /\ UNCHANGED system
    /\ UNCHANGED p_ret

\* validate_before_save()
ValidateBeforeSave ==
    /\ LET r == validate_before_save(mm_system.interfaces, mm_materials, mm_tims)
       IN mm_ret' = [call |-> "validate_before_save", ok |-> r.ok, errors |-> r.errors]
    /\ UNCHANGED <<mm_system, mm_materials, mm_tims, mm_next_id, mtab>>
    /\ UNCHANGED manager
    /\ UNCHANGED gui
    /\ UNCHANGED kernel
    /\ UNCHANGED system
    /\ UNCHANGED p_ret

\* lines 439-491 of materials_tab.py: the TIMs read from the widget rows from the
\* i-th on; a row is [id, name, k, type, pressure_dependent], id 0 standing for None
RECURSIVE save_tims(_, _, _, _)
save_tims(widgets, i, tim_list, next_id) ==
    IF i > Len(widgets) THEN [tims |-> tim_list, next_id |-> next_id]
    ELSE LET w      == widgets[i]
             wid_id == IF w.id = 0 THEN next_id ELSE w.id
             nxt    == IF w.id = 0 THEN next_id + 1 ELSE next_id
         IN IF w.name = "" \/ w.k.t \in {"text", "comma"}
            THEN save_tims(widgets, i + 1, tim_list, nxt)
            ELSE save_tims(widgets, i + 1,
                           Append(tim_list,
                                  Tim(wid_id, w.name, w.k, w.type,
                                      w.type # "paste" /\ w.pressure_dependent)),
                           nxt)

\* MaterialsTab.save_materials with the rows of the table as the user left them: the
\* material rows (B complete; B with an empty k) and the TIM rows (no row; a paste
\* whose variable says pressure dependent, a row without name, a row whose k is not
\* a number and a gas that is pressure dependent)
SaveMaterials ==
    /\ \E rows \in {[n \in {"B"} |-> matB], [n \in {"B"} |-> [matB EXCEPT !.k = EMPTY]]},
          widgets \in {<<>>,
                       <<Tim(1, "paste", Num(F(2, 0)), "paste", TRUE),
                         Tim(0, "", Num(F(2, 0)), "paste", FALSE),
                         Tim(2, "x", TEXT, "gas", FALSE),
                         Tim(3, "air", EMPTY, "gas", TRUE)>>} :
          LET mats == [n \in DOMAIN mtab.materials \cup DOMAIN rows |->
                          IF n \in DOMAIN rows THEN rows[n] ELSE mtab.materials[n]]
              r    == save_tims(widgets, 1, <<>>, mtab.tim_next_id)
          IN /\ mtab' = [materials |-> mats, tims |-> r.tims, tim_next_id |-> r.next_id]
             /\ r.next_id <= MaxTimId
             /\ app' = IF validate_before_save(app.system_interfaces, mats, r.tims).ok
                       THEN [app EXCEPT !.system_materials = mats, !.system_tims = r.tims]
                       ELSE app
    /\ UNCHANGED <<tab, shown>>
    /\ UNCHANGED <<mm_system, mm_materials, mm_tims, mm_next_id, mm_ret>>
    /\ UNCHANGED manager
    /\ UNCHANGED kernel
    /\ UNCHANGED system
    /\ UNCHANGED p_ret

MaterialsSpec ==
    Init /\ [][SetSystem \/ SetMaterials \/ EnsureMaterialEntry \/ SetTims \/ AddTim
                  \/ ClearAllTims \/ ImportTimFile \/ ValidateBeforeSave
                  \/ SaveMaterials]_vars

(***************************************************************************)
(* The claims.  A call has returned when ret.exc = "": ret.tcr is then the  *)
(* detail table and ret.q the summary table of the call.                   *)
(***************************************************************************)
HasReturned == ret.exc = ""
DetailRows  == 1..Len(ret.tcr)
SummaryRows == 1..Len(ret.q)

\* the detail rows computed at the force of the summary row j
RowsAtForce(j) == {r \in DetailRows : ret.tcr[r].force_N = ret.q[j].force_N}

\* C1: in the returned summary table, a force at which some interface has an
\* infinite resistance has R_total infinite and Q = 0, whatever the finite
\* resistances of the other interfaces are.
C1_SeriesRule ==
    HasReturned =>
        \A j \in SummaryRows :
            (\E r \in RowsAtForce(j) : ret.tcr[r].TCR = INF)
                => ret.q[j].R_total = INF /\ ret.q[j].Q = ZERO

\* the nominal area of the configured interface a detail row belongs to
IfaceName(iface) == <<iface.geom_top.name, iface.geom_bottom.name>>
A_nom_of(r) ==
    LET cfgs == args.interface_configs
        c    == CHOOSE i \in 1..Len(cfgs) : IfaceName(cfgs[i].interface) = ret.tcr[r].interface
    IN cfgs[c].interface.A_nominal

\* the row formula of C2: h_eff = h_c + h_int, TCR = 1/(h_eff * A_nom) when both
\* are positive and the infinite sentinel otherwise
RowFormula(r) ==
    LET row == ret.tcr[r] IN
    /\ row.h_eff = FAdd(row.h_c, row.h_int)
    /\ row.TCR = IF FGt(row.h_eff, ZERO) /\ FGt(A_nom_of(r), ZERO)
                 THEN FDiv(ONE, FMul(row.h_eff, A_nom_of(r)))
                 ELSE INF

\* C2: every detail row has h_eff = h_c + h_int and TCR = 1/(h_eff * A_nom) when
\* h_eff > 0 and A_nom > 0, the infinite sentinel otherwise, and computing a row
\* never raises a division by zero.
C2_RowFormulaNoZeroDivision ==
    /\ ret.exc # "ZeroDivisionError"
    /\ HasReturned => \A r \in DetailRows : RowFormula(r)

ParamsOf(r) ==
    LET cfgs == args.interface_configs
        c    == CHOOSE i \in 1..Len(cfgs) : IfaceName(cfgs[i].interface) = ret.tcr[r].interface
    IN get_interface_params(materials, cfgs[c].interface)

\* C4: in every detail row 0 <= pct_styku <= 100, for every pressure (above
\* hc_soft, zero and negative included), and pct_styku = 0 when hc_soft <= 0.
C4_PctStykuWithinBounds ==
    HasReturned =>
        \A r \in DetailRows :
            /\ FGe(ret.tcr[r].pct_styku, ZERO)
            /\ FLe(ret.tcr[r].pct_styku, F(100, 0))
            /\ FLe(ParamsOf(r).hc_soft, ZERO) => ret.tcr[r].pct_styku = ZERO

\* C5: run_model called with no configured interface or with an empty force list
\* returns failure with a non-empty reason and empty detail and summary tables, and
\* invokes neither the parameter resolver nor the conductance model.
C5_NothingToRunFailsBeforeComputing ==
    (ret # NoRun /\ (args.interface_configs = <<>> \/ forces = <<>>)) =>
        /\ HasReturned
        /\ ~ret.ok
        /\ ret.msg # ""
        /\ ret.tcr = <<>>
        /\ ret.q = <<>>
        /\ ret.n_params = 0
        /\ ret.n_calc = 0

\* run_model has been called with interfaces configured and an empty force list
C5_Witness ==
    /\ ret # NoRun
    /\ args.interface_configs # <<>>
    /\ forces = <<>>
    /\ ~ret.ok

\* a field the resolver reads from the materials of the interface does not parse
Unparsable(iface) ==
    \E f \in ParamFields :
        \/ ~FloatOk(Get(MatOf(materials, iface.geom_top.name), f))
        \/ ~FloatOk(Get(MatOf(materials, iface.geom_bottom.name), f))

\* the configuration without its i-th item
Without(cfgs, i) == SubSeq(cfgs, 1, i - 1) \o SubSeq(cfgs, i + 1, Len(cfgs))

\* the run with the same context and arguments on the configuration cfgs
RunOn(cfgs) ==
    run_model(geometries, materials, tims, forces, args.model, cfgs, args.thot, args.tcold)

\* C6: for a configured interface with an unparsable material field the resolver
\* returns None; run_model (called with forces defined) still returns success, has
\* no detail row of that interface, and its detail and summary tables are those of
\* the run in which that interface is not configured.
C6_UnparsableInterfaceSkipped ==
    \A i \in 1..Len(args.interface_configs) :
        LET cfgs == args.interface_configs IN
        Unparsable(cfgs[i].interface) =>
            /\ ~get_interface_params(materials, cfgs[i].interface).ok
            /\ (ret # NoRun /\ forces # <<>>) =>
                  /\ HasReturned /\ ret.ok
                  /\ \A r \in DetailRows :
                        ret.tcr[r].interface # IfaceName(cfgs[i].interface)
                  /\ Without(cfgs, i) # <<>> =>
                        /\ ret.tcr = RunOn(Without(cfgs, i)).tcr
                        /\ ret.q = RunOn(Without(cfgs, i)).q

\* the TIM assigned to a configured interface has a conductivity float() rejects
BadTimAssigned(cfg) ==
    LET ti == FirstTim(tims, cfg.tim_var, 1) IN
    ti # 0 /\ ~FloatOk(tims[ti].k)

\* the detail rows of a table that belong to other interfaces than iface
RowsOfOthers(table, iface) ==
    LET Other(row) == row.interface # IfaceName(iface) IN SelectSeq(table, Other)

\* C7: when the TIM assigned to a configured interface has a missing or non-numeric
\* conductivity (the empty k of a TIM add_tim has just created), run_model still
\* returns normally and produces the rows of the other interfaces.
C7_BadTimDoesNotFailRun ==
    \A i \in 1..Len(args.interface_configs) :
        LET cfgs == args.interface_configs IN
        (BadTimAssigned(cfgs[i]) /\ ret # NoRun) =>
            /\ HasReturned
            /\ Without(cfgs, i) # <<>> =>
                  RowsOfOthers(ret.tcr, cfgs[i].interface) = RunOn(Without(cfgs, i)).tcr

\* run_model skips an interface the resolver fails on (line 147) or whose nominal
\* area is not positive (line 159)
Skipped(cfg) ==
    LET params == get_interface_params(materials, cfg.interface) IN
    ~params.ok \/ FLe(params.A_nom, ZERO)

\* the texts run_model returns as its message (lines 137, 139, 221)
FixedTexts == {"OK", "Brak skonfigurowanych interfejsow.",
               "Brak zdefiniowanych sil w systemie."}

\* the call surfaced a diagnostic for the interface: a notification whose data names
\* it, or a returned message other than the fixed texts
Diagnosed(iface) ==
    \/ \E e \in 1..Len(events) :
          /\ "interface" \in DOMAIN events[e].data
          /\ events[e].data.interface = IfaceName(iface)
    \/ ret.msg \notin FixedTexts

\* C8: for every interface run_model skips (resolver failure or non-positive
\* nominal area) the run surfaces a diagnostic that identifies the interface.
C8_SkipIsDiagnosed ==
    (HasReturned /\ ret.ok) =>
        \A i \in 1..Len(args.interface_configs) :
            Skipped(args.interface_configs[i]) =>
                Diagnosed(args.interface_configs[i].interface)

\* the runner was clicked on a force list with a missing or non-numeric entry, or on
\* a temperature entry that does not parse
InvalidForceOrTemps ==
    \/ \E k \in 1..Len(app.system_forces) : ~FloatOk(app.system_forces[k])
    \/ ~FloatOk(tab.ent_thot)
    \/ ~FloatOk(tab.ent_tcold)

\* C9: a run whose force list contains a missing or non-numeric force value, or whose
\* T_hot or T_cold cannot be parsed, is rejected as a whole: the runner shows no
\* detail row and no summary row, also not for the remaining valid forces.
C9_InvalidInputsRejectWholeRun ==
    (shown # NoShow /\ InvalidForceOrTemps) =>
        shown.tcr_rows = <<>> /\ shown.q_rows = <<>>

\* the part of C9 about the temperatures alone: a temperature entry that does not
\* parse ends the runner with a message box and without rows
TempsRejectWholeRun ==
    (shown # NoShow /\ (~FloatOk(tab.ent_thot) \/ ~FloatOk(tab.ent_tcold))) =>
        shown.dialog # "" /\ shown.tcr_rows = <<>> /\ shown.q_rows = <<>>

\* the sum of the interface resistances at the force of the summary row j, one
\* term per interface, added in the order of the detail table
RECURSIVE SumAtForce(_, _, _, _)
SumAtForce(j, r, seen, total) ==
    IF r > Len(ret.tcr) THEN total
    ELSE LET row == ret.tcr[r] IN
         IF row.force_N = ret.q[j].force_N /\ row.interface \notin seen
         THEN SumAtForce(j, r + 1, seen \cup {row.interface}, FAdd(total, row.TCR))
         ELSE SumAtForce(j, r + 1, seen, total)

\* C10: in every summary row of a force at which the interface resistances are all
\* finite, R_total = R_U + (sum of the interface resistances at that force) and
\* Q = |thot - tcold| / R_total when R_total > 0, else Q = 0; swapping thot and
\* tcold leaves every Q unchanged.
C10_TotalResistanceAndHeatFlow ==
    HasReturned =>
        /\ \A j \in SummaryRows :
              (RowsAtForce(j) # {} /\ \A r \in RowsAtForce(j) : ret.tcr[r].TCR # INF) =>
                  /\ ret.q[j].R_total = FAdd(ret.q[j].R_U, SumAtForce(j, 1, {}, ZERO))
                  /\ ret.q[j].Q = IF FGt(ret.q[j].R_total, ZERO)
                                  THEN FDiv(FAbs(FSub(args.thot, args.tcold)), ret.q[j].R_total)
                                  ELSE ZERO
        /\ \A j \in SummaryRows :
              ret.q[j].Q = run_model(geometries, materials, tims, forces, args.model,
                                     args.interface_configs, args.tcold, args.thot).q[j].Q

\* C11: in every summary row the summed interface resistance TCRsum is the sum of the
\* TCR values of the detail rows of that force, infinity absorbing: TCRsum is
\* infinite whenever an interface resistance at that force is infinite.
C11_TCRsumKeepsInfinity ==
    HasReturned =>
        \A j \in SummaryRows :
            /\ ret.q[j].TCRsum = SumAtForce(j, 1, {}, ZERO)
            /\ (\E r \in RowsAtForce(j) : ret.tcr[r].TCR = INF) => ret.q[j].TCRsum = INF

\* the part of C11 about finite resistances: at a force where every interface
\* resistance is finite and no other force of the list lies within the tolerance of
\* the lookup, TCRsum is their sum
FarApart ==
    \A a, b \in 1..Len(forces) :
        forces[a] = forces[b] \/ ~FLt(FAbs(FSub(forces[a], forces[b])), FORCE_TOL)
TCRsumOfFiniteRows ==
    (HasReturned /\ FarApart) =>
        \A j \in SummaryRows :
            (\A r \in RowsAtForce(j) : ret.tcr[r].TCR # INF) =>
                ret.q[j].TCRsum = SumAtForce(j, 1, {}, ZERO)

\* the sum of height / (k * length * width) over the geometries g[i..] whose
\* conductivity is a positive number and whose cross-section is positive
RECURSIVE BulkSum(_, _)
BulkSum(i, total) ==
    IF i > Len(geometries) THEN total
    ELSE LET g == geometries[i]
             k == Get(MatOf(materials, g.name), "k")
             cross == FMul(g.length, g.width)
         IN BulkSum(i + 1, IF FloatOk(k) /\ FGt(k.v, ZERO) /\ FGt(cross, ZERO)
                           THEN FAdd(total, FDiv(g.height, FMul(k.v, cross)))
                           ELSE total)

\* C12: R_U is the same in every summary row of a run and is the sum of
\* height / (k * length * width) over exactly the geometries with a defined positive
\* conductivity and a positive cross-section; the other layers contribute nothing,
\* so R_U >= 0.
C12_BulkResistance ==
    HasReturned =>
        \A j \in SummaryRows :
            /\ ret.q[j].R_U = ret.q[1].R_U
            /\ ret.q[j].R_U = BulkSum(1, ZERO)
            /\ FGe(ret.q[j].R_U, ZERO)

\* the part of C12 that does not depend on the sign of the cross-sections: R_U is
\* force-independent, and on a stack without a negative cross-section it is the sum
\* of C12
BulkResistanceOfPositiveLayers ==
    HasReturned =>
        \A j \in SummaryRows :
            /\ ret.q[j].R_U = ret.q[1].R_U
            /\ (\A i \in 1..Len(geometries) :
                    FGe(FMul(geometries[i].length, geometries[i].width), ZERO)) =>
                  ret.q[j].R_U = BulkSum(1, ZERO) /\ FGe(ret.q[j].R_U, ZERO)

\* C13: each of the four contact models returns h_contact = 0, without error, for
\* every parameter bundle and every pressure <= 0.
C13_NoContactWithoutPressure ==
    (h_ret # NoCall /\ FLe(probe.P, ZERO)) => h_ret.exc = "" /\ h_ret.h_c = ZERO

\* the part of C13 about the kernels normalised by the microhardness, and about
\* calc_mikic_elastic when m_s * e_s does not underflow
NoContactUnlessUnderflow ==
    (h_ret # NoCall /\ FLe(probe.P, ZERO)) =>
        \/ h_ret.exc = "" /\ h_ret.h_c = ZERO
        \/ /\ probe.model = "mikic_elastic"
           /\ FGt(probe.params.m_s, ZERO) /\ FGt(probe.params.e_s, ZERO)
           /\ FMul(probe.params.m_s, probe.params.e_s) = ZERO

\* the consequence C13 draws for run_model: the detail row of an interface without
\* TIM at a force <= 0 has TCR infinite, and the summary row of that force Q = 0
NoTimNoForceNoFlow ==
    HasReturned =>
        \A r \in DetailRows :
            (ret.tcr[r].h_int = ZERO /\ FLe(ret.tcr[r].force_N, ZERO)) =>
                /\ ret.tcr[r].h_c = ZERO /\ ret.tcr[r].TCR = INF
                /\ FarApart =>
                      \A j \in SummaryRows :
                          ret.q[j].force_N = ret.tcr[r].force_N => ret.q[j].Q = ZERO

\* the TIM run_model selects for a configured interface, 0 for None
TimIndex(cfg) == FirstTim(tims, cfg.tim_var, 1)

\* no TIM matches, or the TIM is a paste, or a gas that is not pressure dependent
FixedGap(cfg) ==
    \/ TimIndex(cfg) = 0
    \/ tims[TimIndex(cfg)].type = "paste"
    \/ tims[TimIndex(cfg)].type = "gas" /\ ~tims[TimIndex(cfg)].pressure_dependent

\* the gap conductance C14 states for such an interface: 0 without a TIM,
\* k_tim / thickness for a thickness that parses to a number > 0, 0 otherwise
StatedGap(cfg) ==
    LET blt == ReplaceComma(cfg.thickness_entry) IN
    IF TimIndex(cfg) = 0 THEN ZERO
    ELSE IF FloatOk(blt) /\ FGt(blt.v, ZERO) THEN FDiv(tims[TimIndex(cfg)].k.v, blt.v)
    ELSE ZERO

\* what lines 165-184 leave as h_int for a configured interface at a force
GapAt(cfg, force_val) ==
    LET params == get_interface_params(materials, cfg.interface) IN
    h_int_of(params, tims, TimIndex(cfg), ReplaceComma(cfg.thickness_entry),
             FDiv(force_val, params.A_nom))

\* the gap conductance of the interface is the stated one at every force of the
\* list, and in every detail row of the interface
GapIsStated(cfg) ==
    /\ \A k \in 1..Len(forces) :
          GapAt(cfg, forces[k]) = [exc |-> "", v |-> StatedGap(cfg)]
    /\ HasReturned =>
          \A r \in DetailRows :
              ret.tcr[r].interface = IfaceName(cfg.interface) =>
                  ret.tcr[r].h_int = StatedGap(cfg)

\* C14: in run_model the gap conductance h_int of an interface is 0 when no TIM
\* matches the assigned name; for a paste, or a gas that is not pressure dependent,
\* it is k_tim / thickness if the thickness parses to a number > 0 and 0 otherwise;
\* and it is the same for every force.
C14_FixedGapConductance ==
    ret # NoRun =>
        \A i \in 1..Len(args.interface_configs) :
            LET cfg == args.interface_configs[i] IN
            (FixedGap(cfg) /\ ~Skipped(cfg)) => GapIsStated(cfg)

\* C14 for the TIMs whose conductivity float() accepts
FixedGapOfNumericTim ==
    ret # NoRun =>
        \A i \in 1..Len(args.interface_configs) :
            LET cfg == args.interface_configs[i] IN
            (FixedGap(cfg) /\ ~Skipped(cfg) /\ ~BadTimAssigned(cfg)) => GapIsStated(cfg)


\* the TIM of the configured interface is a gas with pressure_dependent true
PressureGap(cfg) ==
    /\ TimIndex(cfg) # 0
    /\ tims[TimIndex(cfg)].type = "gas" /\ tims[TimIndex(cfg)].pressure_dependent

\* what the user can have left in a thickness entry
ThicknessEntries == {EMPTY, TEXT, Num(ZERO), Num(F(0 - 1, 0 - 3)), Num(F(1, 0 - 3)),
                     Comma(F(2, 0 - 3)), Num(INF)}

\* lines 165-184 for the configured interface with blt in its thickness entry
GapWith(cfg, blt, force_val) == GapAt([cfg EXCEPT !.thickness_entry = blt], force_val)

\* the gap conductance C15 states: 0 for hc_soft <= 0, sig_s <= 0 or pressure <= 0,
\* k_tim / delta with delta = 1.53 * sig_s * (pressure / hc_soft)^(-0.097) otherwise
StatedPressureGap(cfg, force_val) ==
    LET params   == get_interface_params(materials, cfg.interface)
        Pressure == FDiv(force_val, params.A_nom)
        delta    == FMul(FMul(F(153, 0 - 2), params.sig_s),
                         FPow(FDiv(Pressure, params.hc_soft), F(0 - 97, 0 - 3)))
    IN IF FLe(params.hc_soft, ZERO) \/ FLe(params.sig_s, ZERO) \/ FLe(Pressure, ZERO)
       THEN ZERO
       ELSE FDiv(tims[TimIndex(cfg)].k.v, delta)

\* at every force of the list the gap conductance is the stated one whatever the
\* thickness entry holds, and every detail row of the interface carries it
PressureGapIsStated(cfg) ==
    /\ \A k \in 1..Len(forces) : \A blt \in ThicknessEntries :
          GapWith(cfg, blt, forces[k]) = [exc |-> "", v |-> StatedPressureGap(cfg, forces[k])]
    /\ HasReturned =>
          \A r \in DetailRows :
              ret.tcr[r].interface = IfaceName(cfg.interface) =>
                  ret.tcr[r].h_int = StatedPressureGap(cfg, ret.tcr[r].force_N)

\* C15: for a gas TIM with pressure_dependent true the gap conductance run_model
\* computes does not depend on the thickness entry (any value, also absent or
\* unparsable); it is 0 whenever hc_soft <= 0 or sig_s <= 0 or pressure <= 0, and
\* k_tim / delta with delta = 1.53 * sig_s * (pressure / hc_soft)^(-0.097) otherwise.
C15_PressureDependentGap ==
    ret # NoRun =>
        \A i \in 1..Len(args.interface_configs) :
            LET cfg == args.interface_configs[i] IN
            (PressureGap(cfg) /\ ~Skipped(cfg)) => PressureGapIsStated(cfg)

\* C15 for the TIMs whose conductivity float() accepts
PressureGapOfNumericTim ==
    ret # NoRun =>
        \A i \in 1..Len(args.interface_configs) :
            LET cfg == args.interface_configs[i] IN
            (PressureGap(cfg) /\ ~Skipped(cfg) /\ ~BadTimAssigned(cfg))
                => PressureGapIsStated(cfg)


\* the lists and mappings set_context stores
context == <<geometries, interfaces, materials, tims, forces>>

NotSkipped(cfg) == ~Skipped(cfg)
Kept == SelectSeq(args.interface_configs, NotSkipped)

\* C17: on success run_model returns exactly one detail row for every pair of a
\* configured interface that was not skipped and a position of the force list,
\* interface by interface and within an interface in force-list order, and exactly
\* one summary row per position of the force list, in force-list order; when every
\* interface was skipped each summary row has R_total infinite and Q = 0.
C17_OneRowPerInterfaceAndForce ==
    (HasReturned /\ ret.ok) =>
        LET n == Len(forces) IN
        /\ Len(ret.tcr) = Len(Kept) * n
        /\ \A a \in 1..Len(Kept) : \A k \in 1..n :
              /\ ret.tcr[(a - 1) * n + k].interface = IfaceName(Kept[a].interface)
              /\ ret.tcr[(a - 1) * n + k].force_N = forces[k]
        /\ Len(ret.q) = n
        /\ \A k \in 1..n : ret.q[k].force_N = forces[k]
        /\ Kept = <<>> =>
              \A k \in 1..n : ret.q[k].R_total = INF /\ ret.q[k].Q = ZERO

\* a successful run over two interfaces that were not skipped and two forces
C17_Witness ==
    /\ HasReturned /\ ret.ok
    /\ Len(Kept) = 2 /\ Len(forces) = 2
    /\ Len(ret.tcr) = 4 /\ Len(ret.q) = 2

\* a successful run in which every configured interface was skipped
AllSkippedRun ==
    /\ HasReturned /\ ret.ok
    /\ Kept = <<>> /\ Len(forces) = 2 /\ Len(ret.q) = 2


\* the resolver succeeds on the interface and its nominal area is not positive
NoArea(cfg) ==
    LET params == get_interface_params(materials, cfg.interface) IN
    params.ok /\ FLe(params.A_nom, ZERO)

\* C18: an interface whose nominal area is <= 0 is skipped for all forces: the run
\* has no detail row of it and makes no kernel call or division for it, and ends as
\* the run in which it is not configured ends, with the same detail and summary
\* tables.
C18_NoAreaInterfaceSkipped ==
    \A i \in 1..Len(args.interface_configs) :
        LET cfgs == args.interface_configs IN
        (NoArea(cfgs[i]) /\ ret # NoRun) =>
            /\ \A r \in DetailRows : ret.tcr[r].interface # IfaceName(cfgs[i].interface)
            /\ (Without(cfgs, i) # <<>> /\ forces # <<>>) =>
                  /\ ret.exc = RunOn(Without(cfgs, i)).exc
                  /\ ret.tcr = RunOn(Without(cfgs, i)).tcr
                  /\ ret.q = RunOn(Without(cfgs, i)).q
                  /\ ret.n_calc = RunOn(Without(cfgs, i)).n_calc

\* a run over an interface without area and an interface that has rows
C18_Witness ==
    /\ HasReturned /\ ret.ok /\ Len(forces) = 2
    /\ \E i \in 1..Len(args.interface_configs) : NoArea(args.interface_configs[i])
    /\ Len(ret.tcr) = 2

\* the same with a negative nominal area
NegativeAreaRun ==
    /\ C18_Witness
    /\ \E i \in 1..Len(args.interface_configs) :
          FLt(args.interface_configs[i].interface.A_nominal, ZERO)


\* C19: after any sequence of add_geometry, remove_geometry, update_geometry,
\* import_from_file and set_tcr_flag the interface list has max(0, n - 1) entries
\* for n geometries, interface i has geometries[i] as top and geometries[i+1] as
\* bottom, and its A_nominal is the smaller of the areas of the two.
C19_InterfacesFollowStack ==
    LET n == Len(sys_geometries) IN
    /\ Len(sys_interfaces) = IF n = 0 THEN 0 ELSE n - 1
    /\ \A i \in 1..Len(sys_interfaces) :
          /\ sys_interfaces[i].geom_top = sys_geometries[i]
          /\ sys_interfaces[i].geom_bottom = sys_geometries[i + 1]
          /\ sys_interfaces[i].A_nominal \in {sys_geometries[i].area, sys_geometries[i + 1].area}
          /\ FLe(sys_interfaces[i].A_nominal, sys_geometries[i].area)
          /\ FLe(sys_interfaces[i].A_nominal, sys_geometries[i + 1].area)

\* three geometries after an update, the interface under the first limited by the
\* area of the second, and an interface flagged
C19_Witness ==
    /\ Len(sys_geometries) = 3 /\ Len(sys_interfaces) = 2
    /\ sys_events # <<>> /\ sys_events[Len(sys_events)].event_type = "geometry_updated"
    /\ FLt(sys_geometries[2].area, sys_geometries[1].area)
    /\ sys_interfaces[1].A_nominal = sys_geometries[2].area
    /\ \E i \in 1..2 : sys_interfaces[i].has_tcr

\* the name pairs adjacent in a stack
AdjacentPairs(geoms) == {<<geoms[i].name, geoms[i + 1].name>> : i \in 1..(Len(geoms) - 1)}

\* the name pairs of the interfaces of a list that carry the TCR flag
FlaggedPairs(ifs) == {Key(ifs[i]) : i \in {j \in 1..Len(ifs) : ifs[j].has_tcr}}

\* the call notified 'interfaces_rebuilt'
HasRebuilt(evs) == evs # <<>> /\ evs[1].event_type = "interfaces_rebuilt"

\* C20: when the manager rebuilds the interfaces, an adjacent name pair of the new
\* stack that was an interface before keeps its has_tcr flag, a newly adjacent pair
\* gets has_tcr = false, and 'interfaces_rebuilt' reports as removed exactly the
\* pairs that were flagged before and are no longer adjacent.
C20_RebuildKeepsFlags ==
    [][HasRebuilt(sys_events') =>
          /\ FlaggedPairs(sys_interfaces')
                = FlaggedPairs(sys_interfaces) \cap AdjacentPairs(sys_geometries')
          /\ {sys_events'[1].removed_tcrs[m] : m \in 1..Len(sys_events'[1].removed_tcrs)}
                = FlaggedPairs(sys_interfaces) \ AdjacentPairs(sys_geometries')
          /\ Len(sys_events'[1].removed_tcrs)
                = Cardinality(FlaggedPairs(sys_interfaces) \ AdjacentPairs(sys_geometries'))]_vars

\* a rebuild has reported a removed pair and kept the flag of a surviving one
C20_Witness ==
    /\ HasRebuilt(sys_events)
    /\ sys_events[1].removed_tcrs # <<>>
    /\ FlaggedPairs(sys_interfaces) # {}
    /\ Len(sys_interfaces) = 2


\* the names of the geometries of the manager are pairwise distinct
NamesDistinct ==
    \A i, j \in 1..Len(sys_geometries) :
        i # j => sys_geometries[i].name # sys_geometries[j].name

\* C21: after any sequence of add_geometry, update_geometry, remove_geometry and
\* import_from_file the geometry names are pairwise distinct; a call that returns
\* failure (duplicate name, invalid index, invalid import file) notifies nothing and
\* leaves the geometry list and the interface list, with its TCR flags, unchanged.
C21_NamesDistinctAndRefusalsInert ==
    /\ []NamesDistinct
    /\ [][~sys_ret' => /\ sys_events' = <<>>
                       /\ UNCHANGED <<sys_geometries, sys_interfaces>>]_vars

\* a call was refused on a stack of three geometries with a flagged interface
C21_Witness ==
    /\ ~sys_ret /\ sys_events = <<>>
    /\ Len(sys_geometries) = 3
    /\ \E i \in 1..Len(sys_interfaces) : sys_interfaces[i].has_tcr


(***************************************************************************)
(* get_interface_params called on its own: set_context hands the manager   *)
(* the stack A / B with a material record for each, and the interface is   *)
(* resolved.  The records are A's complete one with its k and hc replaced  *)
(* (empty, zero, negative, positive, infinite) and with keys missing.      *)
(***************************************************************************)
SetMaterialPair ==
    LET Records == {[f \in DOMAIN matA \ drop |->
                        IF f = "k" THEN kv ELSE IF f = "hc" THEN hv ELSE matA[f]] :
                      drop \in {{}, {"k"}, {"hc"},
                                {"k", "young", "poisson", "sigma", "m", "hc"}},
                      kv \in {EMPTY, Num(ZERO), Num(F(0 - 200, 0)), Num(F(100, 0)),
                              Num(F(200, 0)), Num(INF)},
                      hv \in {Num(ZERO), Num(F(0 - 50, 0)), Num(F(50, 0)), Num(F(100, 0))}}
    IN \E top \in Records, bottom \in Records :
          set_context(<<gA, gB>>, InterfacesOf(<<gA, gB>>),
                      [n \in {"A", "B"} |-> IF n = "A" THEN top ELSE bottom], <<>>, <<>>)

GetInterfaceParams ==
    /\ \E i \in 1..Len(interfaces) :
          p_ret' = [called |-> TRUE, iface |-> i,
                    params |-> get_interface_params(materials, interfaces[i])]
    /\ UNCHANGED manager
    /\ UNCHANGED gui
    /\ UNCHANGED kernel
    /\ UNCHANGED system
    /\ UNCHANGED library

ParamsSpec == Init /\ [][SetMaterialPair \/ GetInterfaceParams]_vars

(***************************************************************************)
(* C22: across add_tim, import_tim_file, clear_all_tims and set_tims the   *)
(* TIMs of the library have pairwise distinct ids, and every id newly      *)
(* assigned is greater than every id assigned or supplied before, so none  *)
(* comes back after clear_all_tims.  "Before" is carried by _tim_next_id:  *)
(* it lies above every id of the library, never decreases, and a newly     *)
(* assigned id is not below it.                                            *)
(***************************************************************************)
TimIdsDistinct ==
    \A i, j \in 1..Len(mm_tims) : i # j => mm_tims[i].id # mm_tims[j].id

IdsBelowCounter ==
    \A i \in 1..Len(mm_tims) : mm_tims[i].id < mm_next_id

C22_TimIdsUniqueAndMonotonic ==
    /\ [](TimIdsDistinct /\ IdsBelowCounter)
    /\ [][/\ mm_next_id' >= mm_next_id
          /\ mm_ret'.call \in {"add_tim", "import_tim_file"} =>
                \A i \in (Len(mm_tims) + 1)..Len(mm_tims') :
                    mm_tims'[i].id >= mm_next_id]_vars

\* set_tims was handed two TIMs of one id and add_tim went on from there
DuplicateIdsStored ==
    /\ Len(mm_tims) = 3
    /\ mm_tims[1].id = mm_tims[2].id
    /\ mm_tims[3].id = mm_next_id - 1

\* what the code does keep: the counter and the ids it hands out
C22_AssignedIdsMonotonic ==
    /\ []IdsBelowCounter
    /\ [][/\ mm_next_id' >= mm_next_id
          /\ mm_ret'.call \in {"add_tim", "import_tim_file"} =>
                \A i \in (Len(mm_tims) + 1)..Len(mm_tims') :
                    mm_tims'[i].id >= mm_next_id]_vars

(***************************************************************************)
(* C23: after any sequence of add_tim, import_tim_file, set_tims,          *)
(* clear_all_tims and save_materials, no TIM of type paste in the library  *)
(* (the manager's, the tab's, the application's) is pressure dependent.    *)
(***************************************************************************)
PasteFixed(tim_list) ==
    \A i \in 1..Len(tim_list) : tim_list[i].type = "paste" => ~tim_list[i].pressure_dependent

C23_PasteNeverPressureDependent ==
    /\ PasteFixed(mm_tims)
    /\ PasteFixed(mtab.tims)
    /\ PasteFixed(app.system_tims)

\* set_tims stored a paste marked pressure dependent
PressureDependentPasteStored ==
    /\ mm_tims # <<>>
    /\ ~PasteFixed(mm_tims)

\* save_materials does force the flag off
SavedPasteFixed ==
    /\ PasteFixed(mtab.tims)
    /\ PasteFixed(app.system_tims)

SavedPaste ==
    \E i \in 1..Len(app.system_tims) : app.system_tims[i].type = "paste"


(***************************************************************************)
(* C29: validate_before_save returns failure exactly when an interface has *)
(* has_tcr while the TIM library is empty, or a geometry that is top or    *)
(* bottom of a has_tcr interface has one of the seven fields absent, empty *)
(* or, for the six numeric ones, not a number; a geometry that touches no  *)
(* TCR interface never makes it fail; the call changes neither the         *)
(* materials nor the TIMs.                                                 *)
(***************************************************************************)
TcrInterfaces == {i \in 1..Len(mm_system.interfaces) : mm_system.interfaces[i].has_tcr}

Touching(name) ==
    \E i \in TcrInterfaces : name \in {mm_system.interfaces[i].geom_top.name,
                                      mm_system.interfaces[i].geom_bottom.name}

\* a field of the record of geometry name that is absent, empty or not a number
FieldFaulty(name, fld) ==
    \/ name \notin DOMAIN mm_materials
    \/ fld \notin DOMAIN mm_materials[name]
    \/ mm_materials[name][fld].t = "empty"
    \/ fld # "material_name" /\ mm_materials[name][fld].t # "num"

C29_ValidationFailsExactlyWhenStated ==
    /\ [](mm_ret.call = "validate_before_save" =>
            (~mm_ret.ok <=>
                \/ TcrInterfaces # {} /\ mm_tims = <<>>
                \/ \E g \in {"A", "B", "C"},
                      fld \in {"material_name", "k", "young", "poisson", "sigma", "m", "hc"} :
                        Touching(g) /\ FieldFaulty(g, fld)))
    /\ [][mm_ret'.call = "validate_before_save" =>
            UNCHANGED <<mm_materials, mm_tims, mm_system, mm_next_id>>]_vars

\* a failure for B's roughness alone, although C has no record at all
C29_Witness ==
    /\ mm_ret.call = "validate_before_save"
    /\ mm_tims # <<>>
    /\ TcrInterfaces # {}
    /\ "C" \notin DOMAIN mm_materials
    /\ ~mm_ret.ok
    /\ mm_ret.errors = {<<"B", "sigma", "nieprawidlowa wartosc">>}

\* a success with A -> B flagged, both records complete and a TIM in the library
ValidationPassed ==
    /\ mm_ret.call = "validate_before_save"
    /\ mm_ret.ok
    /\ TcrInterfaces # {}


(***************************************************************************)
(* C24: the summary row of every position of the force list carries, for   *)
(* every interface, the TCR of the detail row of that interface at that    *)
(* force, and is the row the force gets when it is run alone: neither its  *)
(* position nor the other forces of the list (duplicates and nearly equal  *)
(* values included) change it.                                             *)
(***************************************************************************)
C24_SummaryRowOfItsOwnForce ==
    HasReturned =>
        \A j \in SummaryRows :
            RowsAtForce(j) # {} =>
                LET alone == run_model(geometries, materials, tims, <<ret.q[j].force_N>>,
                                       args.model, args.interface_configs, args.tcold,
                                       args.thot).q[1]
                IN /\ ret.q[j].R_total = FAdd(ret.q[j].R_U, SumAtForce(j, 1, {}, ZERO))
                   /\ ret.q[j].R_total = alone.R_total
                   /\ ret.q[j].Q = alone.Q

\* two forces less than 1e-9 apart whose summary rows came out the same although
\* their detail rows differ
NearbyForceAnswered ==
    /\ HasReturned
    /\ \E j, k \in SummaryRows :
          /\ ret.q[j].force_N # ret.q[k].force_N
          /\ ret.q[j].R_total = ret.q[k].R_total
          /\ \E r \in RowsAtForce(j), u \in RowsAtForce(k) :
                /\ ret.tcr[r].interface = ret.tcr[u].interface
                /\ ret.tcr[r].TCR # ret.tcr[u].TCR

\* what holds with the forces of the list further apart than the tolerance, or equal
SummaryRowOfFarForces ==
    (HasReturned /\ FarApart) =>
        \A j \in SummaryRows :
            RowsAtForce(j) # {} =>
                LET alone == run_model(geometries, materials, tims, <<ret.q[j].force_N>>,
                                       args.model, args.interface_configs, args.tcold,
                                       args.thot).q[1]
                IN /\ ret.q[j].R_total = FAdd(ret.q[j].R_U, SumAtForce(j, 1, {}, ZERO))
                   /\ ret.q[j].R_total = alone.R_total
                   /\ ret.q[j].Q = alone.Q


(***************************************************************************)
(* C25: get_interface_params treats every missing field of a partially     *)
(* populated material record as 0 and still returns a bundle, both when    *)
(* the key is absent and when the field is present but empty.              *)
(***************************************************************************)
\* the record with 0 in place of every parameter field that is absent or empty
Filled(d) ==
    [f \in DOMAIN d \cup ParamFields |->
        IF f \in DOMAIN d /\ d[f] # EMPTY THEN d[f] ELSE Num(ZERO)]

HasEmpty(d) == \E f \in DOMAIN d \cap ParamFields : d[f] = EMPTY

C25_MissingFieldsAreZero ==
    p_ret.called =>
        /\ p_ret.params.ok
        /\ p_ret.params = get_interface_params([n \in DOMAIN materials |-> Filled(materials[n])],
                                               interfaces[p_ret.iface])

\* a record with an empty k and every other field set: no bundle
EmptyFieldRefused ==
    /\ p_ret.called
    /\ \E n \in DOMAIN materials : HasEmpty(materials[n])
    /\ ~p_ret.params.ok

\* the half about absent keys holds
AbsentKeysAreZero ==
    (p_ret.called /\ \A n \in DOMAIN materials : ~HasEmpty(materials[n])) =>
        /\ p_ret.params.ok
        /\ p_ret.params = get_interface_params([n \in DOMAIN materials |-> Filled(materials[n])],
                                               interfaces[p_ret.iface])

AbsentKeysResolved ==
    /\ p_ret.called
    /\ p_ret.params.ok
    /\ \E n \in DOMAIN materials : DOMAIN materials[n] = {"material_name"}


(***************************************************************************)
(* C27: the hc_soft of a returned bundle is the smaller of the two         *)
(* microhardness values when both are positive, the positive one when only *)
(* one is, and 0 when neither is; so hc_soft >= 0 for all inputs.          *)
(***************************************************************************)
\* the value get_interface_params reads for a field of the record of geometry name
ValOf(name, fld, scale) == FMul(Get(MatOf(materials, name), fld).v, scale)

C27_SofterPositiveMicrohardness ==
    (p_ret.called /\ p_ret.params.ok) =>
        LET hc_1 == ValOf("A", "hc", HC_SCALE)
            hc_2 == ValOf("B", "hc", HC_SCALE)
            hc   == p_ret.params.hc_soft
        IN /\ (FGt(hc_1, ZERO) /\ FGt(hc_2, ZERO)) =>
                  /\ hc \in {hc_1, hc_2}
                  /\ FLe(hc, hc_1) /\ FLe(hc, hc_2)
           /\ (FGt(hc_1, ZERO) /\ ~FGt(hc_2, ZERO)) => hc = hc_1
           /\ (~FGt(hc_1, ZERO) /\ FGt(hc_2, ZERO)) => hc = hc_2
           /\ (~FGt(hc_1, ZERO) /\ ~FGt(hc_2, ZERO)) => hc = ZERO
           /\ FGe(hc, ZERO)

\* a negative microhardness on top and a positive one below: the positive one
C27_Witness ==
    /\ p_ret.called
    /\ p_ret.params.ok
    /\ FLt(ValOf("A", "hc", HC_SCALE), ZERO)
    /\ FGt(ValOf("B", "hc", HC_SCALE), ZERO)
    /\ p_ret.params.hc_soft = ValOf("B", "hc", HC_SCALE)

\* two different positive values: the smaller
SofterOfTwo ==
    /\ p_ret.called
    /\ p_ret.params.ok
    /\ FGt(ValOf("A", "hc", HC_SCALE), ValOf("B", "hc", HC_SCALE))
    /\ FGt(ValOf("B", "hc", HC_SCALE), ZERO)
    /\ p_ret.params.hc_soft = ValOf("B", "hc", HC_SCALE)


(***************************************************************************)
(* C26 as stated: the k_s of a returned bundle satisfies                   *)
(* k_s <= min(k_1, k_2) whenever both conductivities are positive, is      *)
(* exactly 0 whenever either is 0, and is computed without division by     *)
(* zero when k_1 + k_2 <= 0.                                               *)
(***************************************************************************)
C26_AsStated ==
    (p_ret.called /\ \A n \in DOMAIN materials : ~HasEmpty(materials[n])) =>
        LET k_1 == ValOf("A", "k", ONE)
            k_2 == ValOf("B", "k", ONE)
        IN /\ p_ret.params.ok
           /\ (FGt(k_1, ZERO) /\ FGt(k_2, ZERO)) => FLe(p_ret.params.k_s, FMin(k_1, k_2))
           /\ (k_1 = ZERO \/ k_2 = ZERO) => p_ret.params.k_s = ZERO

(***************************************************************************)
(* C26 as the code has it: k_s is the harmonic mean 2*k_1*k_2/(k_1 + k_2)  *)
(* in float arithmetic whenever k_1 + k_2 > 0, which is not bounded by the *)
(* smaller conductivity (200 and 100 give 133.3, above 100); it is exactly *)
(* 0 when either conductivity is 0 and the other is finite, NaN when one   *)
(* is 0 and the other infinite, and 0, with no division, when              *)
(* k_1 + k_2 <= 0.                                                         *)
(***************************************************************************)
C26_HarmonicMean ==
    (p_ret.called /\ \A n \in DOMAIN materials : ~HasEmpty(materials[n])) =>
        LET k_1 == ValOf("A", "k", ONE)
            k_2 == ValOf("B", "k", ONE)
            k_s == p_ret.params.k_s
        IN /\ p_ret.params.ok
           /\ FGt(FAdd(k_1, k_2), ZERO) =>
                  k_s = FDiv(FMul(FMul(F(2, 0), k_1), k_2), FAdd(k_1, k_2))
           /\ ({k_1, k_2} = {F(100, 0), F(200, 0)}) =>
                  FGt(k_s, F(100, 0)) /\ FLt(k_s, F(200, 0))
           /\ ((k_1 = ZERO /\ IsFinite(k_2)) \/ (k_2 = ZERO /\ IsFinite(k_1))) => k_s = ZERO
           /\ ((k_1 = ZERO /\ k_2 = INF) \/ (k_2 = ZERO /\ k_1 = INF)) => IsNan(k_s)
           /\ ~FGt(FAdd(k_1, k_2), ZERO) => k_s = ZERO

\* 200 W/mK on top and 100 below: a k_s above the smaller of the two
C26_Witness ==
    /\ p_ret.called
    /\ p_ret.params.ok
    /\ ValOf("A", "k", ONE) = F(200, 0)
    /\ ValOf("B", "k", ONE) = F(100, 0)
    /\ FGt(p_ret.params.k_s, F(100, 0))
    /\ FLt(p_ret.params.k_s, F(200, 0))

\* the guard at work: conductivities that add up to nothing or less
GuardedSum ==
    /\ p_ret.called
    /\ p_ret.params.ok
    /\ ValOf("A", "k", ONE) = F(0 - 200, 0)
    /\ ValOf("B", "k", ONE) = F(200, 0)
    /\ p_ret.params.k_s = ZERO


(***************************************************************************)
(* C28: for identical inputs the two runners of the simulation tab show,   *)
(* for every (interface, force), the TCR run_model returns with the        *)
(* matching kernel, 1/((h_c + h_int)*A_nom) with the two heat paths in     *)
(* parallel, so that an interface where only one path conducts has that    *)
(* path's resistance; and they show the same Q per force.  "The same" is   *)
(* read up to the rounding of the arithmetic.                              *)
(***************************************************************************)
Close(a, b) ==
    \/ a = b
    \/ /\ IsFinite(a) /\ IsFinite(b)
       /\ FLe(FAbs(FSub(a, b)), FMul(F(5, 0 - 2), FAbs(b)))

\* run_model on what the runner clicked last has read
SameRun ==
    run_model(app.system_geometries, app.system_materials, app.system_tims,
              ForceValues(app.system_forces, 1),
              IF shown.kind = "spr" THEN "mikic_elastic" ELSE "mikic_plastic",
              tab.interface_config, tab.ent_thot.v, tab.ent_tcold.v)

ShownTables == shown.kind # "" /\ shown.exc = "" /\ shown.dialog = ""

C28_TabRunnersAgreeWithRunModel ==
    ShownTables =>
        /\ \A r \in 1..Len(shown.tcr_rows) :
              LET row == shown.tcr_rows[r] IN
              /\ (row.R_c # INF /\ row.R_int = INF) => row.TCR = row.R_c
              /\ (row.R_c = INF /\ row.R_int # INF) => row.TCR = row.R_int
              /\ SameRun.exc = "" =>
                    \E u \in 1..Len(SameRun.tcr) :
                        /\ SameRun.tcr[u].interface = row.interface
                        /\ SameRun.tcr[u].force_N = row.force_N
                        /\ Close(row.TCR, SameRun.tcr[u].TCR)
        /\ SameRun.exc = "" =>
              \A j \in 1..Len(shown.q_rows) :
                  /\ j <= Len(SameRun.q)
                  /\ Close(shown.q_rows[j].Q, SameRun.q[j].Q)

\* the elastic runner on an interface without a conducting gap: a contact resistance
\* and TCR = 0
OnePathShownAsZero ==
    /\ ShownTables
    /\ shown.kind = "spr"
    /\ \E r \in 1..Len(shown.tcr_rows) :
          /\ shown.tcr_rows[r].R_c # INF
          /\ FGt(shown.tcr_rows[r].R_c, ZERO)
          /\ shown.tcr_rows[r].R_int = INF
          /\ shown.tcr_rows[r].TCR = ZERO

\* the plastic runner on an interface with both paths: their resistances added
TwoPathsInSeries ==
    /\ ShownTables
    /\ shown.kind = "plast"
    /\ \E r \in 1..Len(shown.tcr_rows) :
          /\ shown.tcr_rows[r].R_c # INF
          /\ shown.tcr_rows[r].R_int # INF
          /\ shown.tcr_rows[r].TCR = FAdd(shown.tcr_rows[r].R_c, shown.tcr_rows[r].R_int)
          /\ FGt(shown.tcr_rows[r].TCR, shown.tcr_rows[r].R_c)


(***************************************************************************)
(* C30 as stated: in every detail row of run_model R_c = 1/(h_c*A_nom) if  *)
(* h_c > 0 else infinite, R_int = 1/(h_int*A_nom) if h_int > 0 else        *)
(* infinite, TCR <= R_c and TCR <= R_int, and TCR is infinite exactly when *)
(* both R_c and R_int are infinite.                                        *)
(***************************************************************************)
PathResistances(r) ==
    LET row == ret.tcr[r] IN
    /\ row.R_c = IF FGt(row.h_c, ZERO) THEN FDiv(ONE, FMul(row.h_c, A_nom_of(r))) ELSE INF
    /\ row.R_int = IF FGt(row.h_int, ZERO) THEN FDiv(ONE, FMul(row.h_int, A_nom_of(r))) ELSE INF

NegativePathRow ==
    /\ HasReturned
    /\ \E r \in DetailRows :
          /\ FLt(ret.tcr[r].h_int, ZERO)
          /\ ret.tcr[r].R_c # INF
          /\ ret.tcr[r].TCR = INF

=============================================================================
